---- MODULE Spec2Model ----
(***************************************************************************)
(* Snapshot writer service of the prediction-game repository: the window   *)
(* accumulator (/ingest, /flush over the in-memory bucket map), the STKM   *)
(* compressor it calls on flush, and the persistence gateway it writes to. *)
(*                                                                         *)
(* Node runs every handler on one thread: a handler runs without           *)
(* interruption up to its next await of network I/O, where the handlers of *)
(* other requests may run. Each action below is one such uninterrupted     *)
(* segment.                                                                *)
(***************************************************************************)
EXTENDS Integers, Sequences, FiniteSets, TLC

\* ------------------------------------------------------------------ bounds

\* Number of /ingest requests accepted in a run.
MaxIngest == 2

\* Number of /flush requests that reach flushWindow in a run.
MaxFlush == 2

\* The games of the requests, and the /flush handlers that may be in
\* progress at once (a request is served by the lowest idle one).
Games == {"g1", "g2"}
Procs == {1, 2}

\* ------------------------------------------------------- program constants

WINDOW_SIZE_SEC == 300

\* --------------------------------------------------------------- strings
\* An event type is a string the compressor lower-cases and searches, so it
\* is kept as its sequence of characters.

GOAL == <<"G", "O", "A", "L">>
FOUL == <<"F", "O", "U", "L">>

Upper == <<"A", "B", "C", "D", "E", "F", "G", "H", "I", "J", "K", "L", "M",
           "N", "O", "P", "Q", "R", "S", "T", "U", "V", "W", "X", "Y", "Z">>
Lower == <<"a", "b", "c", "d", "e", "f", "g", "h", "i", "j", "k", "l", "m",
           "n", "o", "p", "q", "r", "s", "t", "u", "v", "w", "x", "y", "z">>

toLowerCase(s) ==
  [i \in 1..Len(s) |->
     IF \E k \in 1..Len(Upper) : Upper[k] = s[i]
     THEN Lower[CHOOSE k \in 1..Len(Upper) : Upper[k] = s[i]]
     ELSE s[i]]

toUpperCase(s) ==
  [i \in 1..Len(s) |->
     IF \E k \in 1..Len(Lower) : Lower[k] = s[i]
     THEN Upper[CHOOSE k \in 1..Len(Lower) : Lower[k] = s[i]]
     ELSE s[i]]

\* String.prototype.includes
includes(s, sub) ==
  \E i \in 0..(Len(s) - Len(sub)) :
     \A j \in 1..Len(sub) : s[i + j] = sub[j]

\* ---------------------------------------------------------------- events
\* A canonical event as the bridge forwards it: ts is the event's timestamp,
\* which the bridge also sends as the request's tSec; id is the identity of
\* the JavaScript object (the order of arrival at /ingest).

GoalBody == [type |-> GOAL, team |-> "Barcelona", player |-> "Messi"]
FoulBody == [type |-> FOUL, team |-> "Atletico", player |-> ""]

NoBody == [type |-> <<>>, team |-> "", player |-> ""]

MkEvent(n, tSec, b) ==
  [id |-> n, ts |-> tSec, type |-> b.type, team |-> b.team, player |-> b.player]

\* -------------------------------------------------------------- compressor

CountIf(events, P(_)) == Cardinality({i \in 1..Len(events) : P(events[i])})

sideOf(e) == IF e.team = "Barcelona" \/ e.team = "Home" THEN "home" ELSE "away"

typeHas(e, sub) == includes(toLowerCase(e.type), sub)

goal_ == <<"g", "o", "a", "l">>
shot_ == <<"s", "h", "o", "t">>
corner_ == <<"c", "o", "r", "n", "e", "r">>
foul_ == <<"f", "o", "u", "l">>
yellow_ == <<"y", "e", "l", "l", "o", "w">>
red_ == <<"r", "e", "d">>
box_entry_ == <<"b", "o", "x", "_", "e", "n", "t", "r", "y">>
pass_into_box_ == <<"p", "a", "s", "s", "_", "i", "n", "t", "o", "_", "b", "o", "x">>
shot_on_target_ == <<"s", "h", "o", "t", "_", "o", "n", "_", "t", "a", "r", "g", "e", "t">>
on_target_ == <<"o", "n", " ", "t", "a", "r", "g", "e", "t">>

\* state.<counter>[side] after the loop over the events
stateShots(events, sd) ==
  CountIf(events, LAMBDA e : sideOf(e) = sd /\ typeHas(e, goal_))
  + CountIf(events, LAMBDA e : sideOf(e) = sd /\ typeHas(e, shot_))

stateShotsOnTarget(events, sd) ==
  CountIf(events, LAMBDA e : sideOf(e) = sd /\ typeHas(e, goal_))
  + CountIf(events, LAMBDA e : sideOf(e) = sd /\ typeHas(e, shot_)
                               /\ (typeHas(e, shot_on_target_) \/ typeHas(e, on_target_)))

stateCorners(events, sd) ==
  CountIf(events, LAMBDA e : sideOf(e) = sd /\ typeHas(e, corner_))

stateFouls(events, sd) ==
  CountIf(events, LAMBDA e : sideOf(e) = sd /\ typeHas(e, foul_))

stateCards(events, sd) ==
  CountIf(events, LAMBDA e : sideOf(e) = sd /\ typeHas(e, yellow_))
  + CountIf(events, LAMBDA e : sideOf(e) = sd /\ typeHas(e, red_))

stateBoxEntries(events, sd) ==
  CountIf(events, LAMBDA e : sideOf(e) = sd
                             /\ (typeHas(e, box_entry_) \/ typeHas(e, pass_into_box_)))

BySide(f(_, _), events) == [home |-> f(events, "home"), away |-> f(events, "away")]

\* keyMoments: one entry per event that carries a player, in event order
RECURSIVE keyMoments(_)
keyMoments(events) ==
  IF events = <<>> THEN <<>>
  ELSE LET e == Head(events) IN
       (IF e.player # ""
        THEN << [ts |-> e.ts, type |-> toUpperCase(e.type),
                 team |-> e.team, player |-> e.player] >>
        ELSE <<>>) \o keyMoments(Tail(events))

KEY_MOMENTS_CAP == 20

slice0(s, n) == IF Len(s) <= n THEN s ELSE SubSeq(s, 1, n)

trendsVsPrev ==
  [shot_delta   |-> [home |-> 0, away |-> 0],
   card_delta   |-> [home |-> 0, away |-> 0],
   corner_delta |-> [home |-> 0, away |-> 0]]

scoreOf(events) ==
  [home |-> 0, away |-> 0, home_name |-> "Barcelona", away_name |-> "Atletico Madrid"]

stkmCompress(events, windowMeta) ==
  [window |-> [start |-> windowMeta.start,
               end |-> windowMeta.end,
               minute_range |-> <<windowMeta.start \div 60, windowMeta.end \div 60>>,
               period |-> IF windowMeta.start < 2700 THEN 1 ELSE 2],
   score |-> scoreOf(events),
   state |-> [shots           |-> BySide(stateShots, events),
              shots_on_target |-> BySide(stateShotsOnTarget, events),
              box_entries     |-> BySide(stateBoxEntries, events),
              corners         |-> BySide(stateCorners, events),
              fouls           |-> BySide(stateFouls, events),
              cards           |-> BySide(stateCards, events)],
   key_moments |-> slice0(keyMoments(events), KEY_MOMENTS_CAP),
   trends_vs_prev |-> trendsVsPrev]

\* ------------------------------------------------------------ JSON values
\* A request field as express.json() delivers it: typeof is t; v is the
\* number when t = "number".

Num(n) == [t |-> "number", v |-> n]
Undefined == [t |-> "undefined", v |-> 0]
Str == [t |-> "string", v |-> 0]

\* ------------------------------------------------------------------ state

VARIABLES
  eventsByWindow,  \* Map gameId -> Map: the id of the game's Map in heapMap, 0 when unset
  heapMap,         \* the Map objects created by getBucket: entries [key, arr] in insertion order
  heapArr,         \* the bucket arrays created by getBucket
  dbGames,         \* table games: the ids upserted
  dbWindows,       \* table windows: row i has id i
  dbSnapshots,     \* table snapshots: at most one row per window_id (onConflict)
  pc,              \* per /flush handler: the await it is suspended at, or "idle"
  gameId,          \* per /flush handler: the gameId of its request
  targets,         \* per /flush handler: the windows still to flush, the current one first
  byGame,          \* flushWindow's local byGame (a Map id)
  events,          \* flushWindow's local events (an array id)
  windowRow,       \* flushWindow's local windowRow.id
  payload,         \* the body of the insertSnapshot request in flight
  flushed,         \* the /flush handler's local counter
  console,         \* per /flush handler: the lines its request has printed so far
  nFlush,          \* number of /flush requests that reached flushWindow
  accepted,        \* history: the [gameId, event] pairs /ingest has acknowledged, in order
  lastRequest,     \* the request the last step received; NoRequest when it received none
  lastExchange,    \* the request the last step answered, with its response and the
                   \* lines it printed; NoExchange when the last step answered none
  lastFlushed      \* per game: the window id of the snapshot written last, 0 when none

accVars == <<eventsByWindow, heapMap, heapArr>>
dbVars == <<dbGames, dbWindows, dbSnapshots>>
procVars == <<pc, gameId, targets, byGame, events, windowRow, payload, flushed, console>>
serviceVars == <<eventsByWindow, heapMap, heapArr, dbGames, dbWindows, dbSnapshots,
                 pc, gameId, targets, byGame, events, windowRow, payload, flushed,
                 console, nFlush, accepted, lastRequest, lastExchange, lastFlushed>>

\* The replay server (sb-replay-server.js), a process of its own
VARIABLES
  all,             \* the provider records read from EVENTS_PATH
  normalized,      \* the canonical events: mapped, filtered, sorted by ts
  SPEED,           \* --speed
  clients,         \* the Set of /stream responses being broadcast to
  replaying,       \* the flag
  loops,           \* the activations of replay() suspended at their sleep: [i, prev, gap]
  conn,            \* per connection: "new" (not yet made), "open" or "closed"
  inbox,           \* per connection: the SSE messages written to it, in order
  emitted,         \* history: the tick payloads broadcast since the process started
  waits,           \* history: the [ts, prev, gap] of every sleep since the process started
  runs,            \* history: the number of times replay() passed its guard
  record,          \* the provider record last given to normalizeEvent
  canonical        \* what normalizeEvent returned for it

emitterVars == <<all, normalized, SPEED, clients, replaying, loops, conn, inbox,
                 emitted, waits, runs>>
normalizerVars == <<record, canonical>>
replayVars == <<emitterVars, normalizerVars>>

\* The compressor of the writer service (stkm.js) applied to one raw list
VARIABLES
  rawList,         \* the events array passed to stkmCompress
  compressed       \* what stkmCompress returned for it

compressorVars == <<rawList, compressed>>

\* The facet server (facet_server.js), a process of its own that reads the
\* tables windows and snapshots
VARIABLES
  facetRequest,    \* the body of the last POST /get_facet
  facetResponse    \* its response

facetVars == <<facetRequest, facetResponse>>

\* The offline snapshotter (snapshotter.js), a script run over an events file
VARIABLES
  eventLog,        \* the records of the events file
  nextWindow,      \* the position of the write loop in windows; 0 when not running
  runningScore,    \* runningScore, by side
  snapshots        \* the files written: [start, end, raw, stkm] per window

snapshotterVars == <<eventLog, nextWindow, runningScore, snapshots>>

\* The clients: one call of withBackoff (llm-gemini/retry.js), and the bridge
\* (bridge_sse_to_snapshot.js) with the writer service it posts to
VARIABLES
  backoff,         \* the call: its options, attempt, lastErr, the await it is at
                   \* (pc), what it returned or threw (value), and as history the
                   \* outcomes of its calls of fn (calls) and its delays in ms
  bridge           \* the bridge's globals, its tick handlers and its done handler,
                   \* the service's buckets and what it persisted

clientVars == <<backoff, bridge>>
offlineVars == <<compressorVars, facetVars, snapshotterVars, clientVars>>

vars == <<serviceVars, replayVars, offlineVars>>

NoPayload == [raw_json |-> <<>>, compressed_json |-> <<>>]
NoExchange == [op |-> "none"]
NoRequest == [op |-> "none"]

\* The snapshot writer service after start-up, whatever the tables hold
HandlersInit ==
  /\ eventsByWindow = [g \in Games |-> 0]
  /\ heapMap = <<>>
  /\ heapArr = <<>>
  /\ pc = [p \in Procs |-> "idle"]
  /\ gameId = [p \in Procs |-> ""]
  /\ targets = [p \in Procs |-> <<>>]
  /\ byGame = [p \in Procs |-> 0]
  /\ events = [p \in Procs |-> 0]
  /\ windowRow = [p \in Procs |-> 0]
  /\ payload = [p \in Procs |-> NoPayload]
  /\ flushed = [p \in Procs |-> 0]
  /\ console = [p \in Procs |-> <<>>]
  /\ accepted = <<>>
  /\ nFlush = 0
  /\ lastRequest = NoRequest
  /\ lastExchange = NoExchange
  /\ lastFlushed = [g \in Games |-> 0]

\* The snapshot writer service after start-up over empty tables
ServiceInit ==
  /\ HandlersInit
  /\ dbGames = {}
  /\ dbWindows = <<>>
  /\ dbSnapshots = {}

\* ------------------------------------------------------------- accumulator

\* floorToWindow with the boundary second counted into the earlier window
floorToWindowBoundaryEarly(tSec) ==
  LET start == ((tSec - 1) \div WINDOW_SIZE_SEC) * WINDOW_SIZE_SEC
  IN  [start |-> start, end |-> start + WINDOW_SIZE_SEC]

floorToWindow(tSec) ==
  LET start == (tSec \div WINDOW_SIZE_SEC) * WINDOW_SIZE_SEC
  IN  [start |-> start, end |-> start + WINDOW_SIZE_SEC]

\* The key `${start}-${end}` and its parse key.split('-').map(parseInt): the
\* decimal rendering of two non-negative integers joined by '-' is kept as the
\* pair, which the split recovers.
windowKey(start, end) == <<start, end>>
parseKey(key) == [start |-> key[1], end |-> key[2]]

\* Map.prototype.get on a Map of buckets: the array id, 0 when the key is unset
mapGet(m, key) ==
  IF \E i \in 1..Len(m) : m[i].key = key
  THEN m[CHOOSE i \in 1..Len(m) : m[i].key = key].arr
  ELSE 0

\* Map.prototype.delete: the entry leaves, the others keep their order
RECURSIVE mapDelete(_, _)
mapDelete(m, key) ==
  IF m = <<>> THEN <<>>
  ELSE IF Head(m).key = key THEN Tail(m)
  ELSE <<Head(m)>> \o mapDelete(Tail(m), key)

\* getBucket(gameId, start, end): the heap after the call and the bucket returned
getBucket(eBW, hMap, hArr, g, start, end) ==
  LET hMap1 == IF eBW[g] = 0 THEN Append(hMap, <<>>) ELSE hMap
      eBW1  == IF eBW[g] = 0 THEN [eBW EXCEPT ![g] = Len(hMap1)] ELSE eBW
      key   == windowKey(start, end)
      mid   == eBW1[g]
      has   == mapGet(hMap1[mid], key) # 0
      hArr1 == IF has THEN hArr ELSE Append(hArr, <<>>)
      hMap2 == IF has THEN hMap1
               ELSE [hMap1 EXCEPT ![mid] = Append(@, [key |-> key, arr |-> Len(hArr1)])]
  IN  [eBW |-> eBW1, hMap |-> hMap2, hArr |-> hArr1, arr |-> mapGet(hMap2[mid], key)]

\* The bucket of (gameId, key) that /ingest and flushWindow would find now
liveArr(eBW, hMap, g, key) ==
  IF eBW[g] = 0 THEN 0 ELSE mapGet(hMap[eBW[g]], key)

liveBucket(eBW, hMap, hArr, g, key) ==
  LET a == liveArr(eBW, hMap, g, key) IN IF a = 0 THEN <<>> ELSE hArr[a]

\* ----------------------------------------------------------------- /ingest

ingestRejects(r) == r.gameId = "" \/ r.tSec.t # "number" \/ ~r.hasEvent

IngestRequests ==
  { [gameId |-> "g1", tSec |-> Num(299), hasEvent |-> TRUE, body |-> GoalBody],
    [gameId |-> "g1", tSec |-> Num(300), hasEvent |-> TRUE, body |-> GoalBody],
    [gameId |-> "g1", tSec |-> Num(300), hasEvent |-> TRUE, body |-> FoulBody] }
  \cup { [gameId |-> "g2", tSec |-> Num(300), hasEvent |-> TRUE, body |-> GoalBody] }
  \cup { [gameId |-> "", tSec |-> Num(300), hasEvent |-> TRUE, body |-> NoBody],
         [gameId |-> "g1", tSec |-> Str, hasEvent |-> TRUE, body |-> NoBody],
         [gameId |-> "g1", tSec |-> Num(300), hasEvent |-> FALSE, body |-> NoBody] }

nIngested == Len(accepted)

Ingest(r) ==
  /\ nIngested < MaxIngest
  /\ lastRequest' = [op |-> "ingest", body |-> r]
  /\ IF ingestRejects(r)
     THEN /\ lastExchange' = [op |-> "ingest", status |-> 400]
          /\ UNCHANGED <<accVars, accepted>>
     ELSE LET w == floorToWindow(r.tSec.v)
              b == getBucket(eventsByWindow, heapMap, heapArr, r.gameId, w.start, w.end)
              e == MkEvent(nIngested + 1, r.tSec.v, r.body)
          IN  /\ eventsByWindow' = b.eBW
              /\ heapMap' = b.hMap
              /\ heapArr' = [b.hArr EXCEPT ![b.arr] = Append(@, e)]
              /\ accepted' = Append(accepted, [gameId |-> r.gameId, event |-> e])
              /\ lastExchange' = [op |-> "ingest", status |-> 200,
                                  bucket |-> windowKey(w.start, w.end),
                                  size |-> Len(b.hArr[b.arr]) + 1]
  /\ UNCHANGED <<dbVars, procVars, nFlush, lastFlushed>>
  /\ UNCHANGED <<replayVars, offlineVars>>

\* ------------------------------------------------------------------ /flush

FlushRequests ==
  { [gameId |-> "g1", start |-> Num(w), end |-> Num(w + WINDOW_SIZE_SEC)] :
      w \in {0, WINDOW_SIZE_SEC} }
  \cup { [gameId |-> g, start |-> Undefined, end |-> Undefined] : g \in Games }
  \cup { [gameId |-> "g1", start |-> Num(0), end |-> Undefined],
         [gameId |-> "", start |-> Num(0), end |-> Num(WINDOW_SIZE_SEC)] }

\* flushWindow without the tests on the bucket: only a game with no Map
\* returns early
nothingToWriteNoMapOnly(eBW, hMap, hArr, g, w) ==
  eBW[g] = 0

\* flushWindow returns before its try block: no Map for the game, no bucket
\* under the key, or an empty bucket
nothingToWrite(eBW, hMap, hArr, g, w) ==
  \/ eBW[g] = 0
  \/ liveArr(eBW, hMap, g, windowKey(w.start, w.end)) = 0
  \/ Len(hArr[liveArr(eBW, hMap, g, windowKey(w.start, w.end))]) = 0

\* The handler's loop over targets, run until flushWindow suspends at its
\* first await: the targets left, the first of them the one being written
RECURSIVE skipReturned(_, _, _, _, _)
skipReturned(eBW, hMap, hArr, g, tgts) ==
  IF tgts = <<>> THEN <<>>
  ELSE IF nothingToWrite(eBW, hMap, hArr, g, Head(tgts))
       THEN skipReturned(eBW, hMap, hArr, g, Tail(tgts))
       ELSE tgts

\* The response of the /flush handler once its loop has ended
flushResponse(n, lines) ==
  [op |-> "flush", status |-> 200, flushed |-> n, lines |-> lines]

\* The target list of a /flush request over the game's Map m
flushTargets(r, m) ==
  IF r.start.t = "number" /\ r.end.t = "number"
  THEN << [start |-> r.start.v, end |-> r.end.v] >>
  ELSE [i \in 1..Len(m) |-> parseKey(m[i].key)]

\* The /flush handler from `for (const w of targets)` on, with tgts still to
\* flush and n counted so far, over the accumulator (eBW, hMap, hArr): it
\* either suspends in flushWindow at ensureGame or responds.
runLoop(p, g, tgts, n, lines, eBW, hMap, hArr) ==
  LET rest == skipReturned(eBW, hMap, hArr, g, tgts)
      n2   == n + (Len(tgts) - Len(rest))
  IN  /\ windowRow' = [windowRow EXCEPT ![p] = 0]
      /\ payload' = [payload EXCEPT ![p] = NoPayload]
      /\ IF rest = <<>>
         THEN /\ pc' = [pc EXCEPT ![p] = "idle"]
              /\ gameId' = [gameId EXCEPT ![p] = ""]
              /\ targets' = [targets EXCEPT ![p] = <<>>]
              /\ byGame' = [byGame EXCEPT ![p] = 0]
              /\ events' = [events EXCEPT ![p] = 0]
              /\ flushed' = [flushed EXCEPT ![p] = 0]
              /\ console' = [console EXCEPT ![p] = <<>>]
              /\ lastExchange' = flushResponse(n2, lines)
         ELSE /\ pc' = [pc EXCEPT ![p] = "ensureGame"]
              /\ gameId' = [gameId EXCEPT ![p] = g]
              /\ console' = [console EXCEPT ![p] = lines]
              /\ targets' = [targets EXCEPT ![p] = rest]
              /\ byGame' = [byGame EXCEPT ![p] = eBW[g]]
              /\ events' = [events EXCEPT ![p] =
                              liveArr(eBW, hMap, g,
                                      windowKey(Head(rest).start, Head(rest).end))]
              /\ flushed' = [flushed EXCEPT ![p] = n2]
              /\ lastExchange' = NoExchange

\* flushWindow's catch block: the line printed; the bucket is left alone
failedLine(g, w) ==
  [level |-> "error", gameId |-> g, start |-> w.start, end |-> w.end, raw |-> 0]

savedLine(g, w, n) ==
  [level |-> "log", gameId |-> g, start |-> w.start, end |-> w.end, raw |-> n]

\* POST /flush arrives at an idle handler
FlushRequest(p, r) ==
  /\ pc[p] = "idle"
  /\ \A q \in Procs : pc[q] = "idle" => ~(q < p)
  /\ lastRequest' = [op |-> "flush", body |-> r]
  /\ IF r.gameId = ""
     THEN /\ lastExchange' = [op |-> "flush", status |-> 400]
          /\ UNCHANGED <<procVars, nFlush>>
     ELSE IF eventsByWindow[r.gameId] = 0 \/ Len(heapMap[eventsByWindow[r.gameId]]) = 0
     THEN /\ lastExchange' = flushResponse(0, <<>>)
          /\ UNCHANGED <<procVars, nFlush>>
     ELSE /\ nFlush < MaxFlush /\ nFlush' = nFlush + 1
          /\ runLoop(p, r.gameId, flushTargets(r, heapMap[eventsByWindow[r.gameId]]),
                  0, <<>>, eventsByWindow, heapMap, heapArr)
  /\ UNCHANGED <<accVars, dbVars, accepted, lastFlushed>>
  /\ UNCHANGED <<replayVars, offlineVars>>

\* A catch block that drops the bucket of the window that failed
catchDiscardsBucket(p) ==
  LET w     == Head(targets[p])
      hMap1 == [heapMap EXCEPT ![byGame[p]] = mapDelete(@, windowKey(w.start, w.end))]
  IN  /\ heapMap' = hMap1
      /\ runLoop(p, gameId[p], Tail(targets[p]), flushed[p] + 1,
                 Append(console[p], failedLine(gameId[p], w)),
                 eventsByWindow, hMap1, heapArr)
      /\ lastRequest' = NoRequest
      /\ UNCHANGED <<eventsByWindow, heapArr, dbVars, accepted, nFlush, lastFlushed>>

\* flushWindow's catch: print, return to the handler's loop
catchFailed(p) ==
  /\ runLoop(p, gameId[p], Tail(targets[p]), flushed[p] + 1,
             Append(console[p], failedLine(gameId[p], Head(targets[p]))),
             eventsByWindow, heapMap, heapArr)
  /\ lastRequest' = NoRequest
  /\ UNCHANGED <<accVars, dbVars, accepted, nFlush, lastFlushed>>

\* await ensureGame(gameId) ends
EnsureGameDone(p, ok) ==
  /\ pc[p] = "ensureGame"
  /\ IF ok
     THEN /\ dbGames' = dbGames \cup {gameId[p]}
          /\ pc' = [pc EXCEPT ![p] = "upsertWindow"]
          /\ lastRequest' = NoRequest
          /\ UNCHANGED <<accVars, dbWindows, dbSnapshots, gameId, targets, byGame, events,
                         windowRow, payload, flushed, console, accepted, nFlush, lastFlushed>>
          /\ lastExchange' = NoExchange
     ELSE catchFailed(p)
  /\ UNCHANGED <<replayVars, offlineVars>>

\* table windows, upsert on (game_id, start_sec, end_sec): the row's id
windowId(rows, g, w) ==
  LET row == [game_id |-> g, start_sec |-> w.start, end_sec |-> w.end]
  IN  IF \E i \in 1..Len(rows) : rows[i] = row
      THEN CHOOSE i \in 1..Len(rows) : rows[i] = row
      ELSE Len(rows) + 1

upsertWindow(rows, g, w) ==
  LET row == [game_id |-> g, start_sec |-> w.start, end_sec |-> w.end]
  IN  IF \E i \in 1..Len(rows) : rows[i] = row THEN rows ELSE Append(rows, row)

\* The arguments flushWindow passes to insertSnapshot, read from the bucket
\* array when the call is made
snapshotBody(evs, g, w) ==
  [raw_json |-> evs,
   compressed_json |-> stkmCompress(evs, [gameId |-> g, start |-> w.start, end |-> w.end])]

\* await upsertWindow(gameId, start, end) ends; on success flushWindow
\* compresses and calls insertSnapshot
UpsertWindowDone(p, ok) ==
  /\ pc[p] = "upsertWindow"
  /\ IF ok
     THEN /\ dbWindows' = upsertWindow(dbWindows, gameId[p], Head(targets[p]))
          /\ windowRow' = [windowRow EXCEPT ![p] =
                             windowId(dbWindows, gameId[p], Head(targets[p]))]
          /\ payload' = [payload EXCEPT ![p] =
                           snapshotBody(heapArr[events[p]], gameId[p], Head(targets[p]))]
          /\ pc' = [pc EXCEPT ![p] = "insertSnapshot"]
          /\ lastRequest' = NoRequest
          /\ UNCHANGED <<accVars, dbGames, dbSnapshots, gameId, targets, byGame, events,
                         flushed, console, accepted, nFlush, lastFlushed>>
          /\ lastExchange' = NoExchange
     ELSE catchFailed(p)
  /\ UNCHANGED <<replayVars, offlineVars>>

\* table snapshots, upsert on window_id
insertSnapshot(rows, window_id, body) ==
  {s \in rows : s.window_id # window_id}
  \cup { [window_id |-> window_id, raw_json |-> body.raw_json,
          compressed_json |-> body.compressed_json, compressed_kind |-> "STKM"] }

\* flushWindow step 4, "Clear memory for that window": the Maps after
\* byGame.delete(key) and the gameId -> Map table after the size test
clearMap(hMap, mid, key) == [hMap EXCEPT ![mid] = mapDelete(@, key)]

clearGame(eBW, hMap, mid, g) ==
  IF Len(hMap[mid]) = 0 THEN [eBW EXCEPT ![g] = 0] ELSE eBW

\* await insertSnapshot(...) ends
InsertSnapshotDone(p, ok) ==
  /\ pc[p] = "insertSnapshot"
  /\ IF ok
     THEN LET g     == gameId[p]
              w     == Head(targets[p])
              hMap1 == clearMap(heapMap, byGame[p], windowKey(w.start, w.end))
              eBW1  == clearGame(eventsByWindow, hMap1, byGame[p], g)
          IN  /\ dbSnapshots' = insertSnapshot(dbSnapshots, windowRow[p], payload[p])
              /\ lastFlushed' = [lastFlushed EXCEPT ![g] = windowRow[p]]
              /\ heapMap' = hMap1
              /\ eventsByWindow' = eBW1
              /\ runLoop(p, g, Tail(targets[p]), flushed[p] + 1,
                         Append(console[p], savedLine(g, w, Len(heapArr[events[p]]))),
                         eBW1, hMap1, heapArr)
              /\ lastRequest' = NoRequest
              /\ UNCHANGED <<heapArr, dbGames, dbWindows, accepted, nFlush>>
     ELSE catchFailed(p)
  /\ UNCHANGED <<replayVars, offlineVars>>

\* ------------------------------------------------------------- normalizer
\* sb-replay-server.js. A provider record carries type.name, team.name,
\* player.name, minute, second, period, and per type shot.outcome.name,
\* goalkeeper.type.name, pass.goal_assist, pass.shot_assist,
\* pass.end_location; a missing string is "", a missing number 0, a missing
\* array <<>>. The data payload of a canonical event (provider fields copied
\* through) is left out.

SHOT == <<"S", "H", "O", "T">>
CARD == <<"C", "A", "R", "D">>
CORNER == <<"C", "O", "R", "N", "E", "R">>
FREE_KICK_WON == <<"F", "R", "E", "E", "_", "K", "I", "C", "K", "_", "W", "O", "N">>
THROW_IN == <<"T", "H", "R", "O", "W", "_", "I", "N">>
GOAL_KICK == <<"G", "O", "A", "L", "_", "K", "I", "C", "K">>
OFFSIDE == <<"O", "F", "F", "S", "I", "D", "E">>
SUB == <<"S", "U", "B">>
ASSIST == <<"A", "S", "S", "I", "S", "T">>
KEY_PASS == <<"K", "E", "Y", "_", "P", "A", "S", "S">>
PASS_INTO_BOX == <<"P", "A", "S", "S", "_", "I", "N", "T", "O", "_", "B", "O", "X">>
VAR == <<"V", "A", "R">>

\* What normalizeEvent returns for a record it ignores
Null == [null |-> TRUE]

\* Math.max, Math.min, clamp
max(a, b) == IF a >= b THEN a ELSE b
min(a, b) == IF a <= b THEN a ELSE b

\* A clamp without its upper bound
clampFromBelowOnly(x, a, b) == max(a, x)

clamp(x, a, b) == max(a, min(b, x))

\* offsets[period] || 0
periodOffset(period) ==
  CASE period = 1 -> 0
    [] period = 2 -> 45 * 60
    [] period = 3 -> 90 * 60
    [] period = 4 -> 105 * 60
    [] OTHER -> 0

\* eventSeconds without its guard: the offset is always added
eventSecondsAlwaysOffset(e) ==
  e.minute * 60 + e.second + periodOffset(IF e.period = 0 THEN 1 ELSE e.period)

eventSeconds(e) ==
  LET minute == e.minute
      second == e.second
      period == IF e.period = 0 THEN 1 ELSE e.period
      base   == minute * 60 + second
  IN  IF period > 1 /\ minute >= 45 THEN base ELSE base + periodOffset(period)

\* The zone without its far edge y = 62
isIntoBoxOpenEdge(endLoc) ==
  IF Len(endLoc) < 2 THEN FALSE
  ELSE endLoc[1] >= 102 /\ endLoc[2] >= 18 /\ endLoc[2] < 62

isIntoBox(endLoc) ==
  IF Len(endLoc) < 2 THEN FALSE
  ELSE endLoc[1] >= 102 /\ endLoc[2] >= 18 /\ endLoc[2] <= 62

\* s.replace(/\s+/g, '_'): every run of spaces becomes one underscore
RECURSIVE replaceSpaces(_)
replaceSpaces(s) ==
  IF s = <<>> THEN <<>>
  ELSE IF Head(s) = " "
       THEN IF Len(s) > 1 /\ s[2] = " "
            THEN replaceSpaces(Tail(s))
            ELSE <<"_">> \o replaceSpaces(Tail(s))
       ELSE <<Head(s)>> \o replaceSpaces(Tail(s))

canonicalEvent(e, type) ==
  [ts |-> eventSeconds(e), type |-> type, team |-> e.team, player |-> e.player]

normalizeEvent(e) ==
  LET t == e.type IN
  IF t = "Shot"
  THEN canonicalEvent(e, IF e.outcome = "Goal" THEN GOAL ELSE SHOT)
  ELSE IF t = "Goal Keeper"
  THEN canonicalEvent(e, replaceSpaces(toUpperCase(e.gkType)))
  ELSE IF t = "Foul Committed" THEN canonicalEvent(e, FOUL)
  ELSE IF t = "Bad Behaviour" THEN canonicalEvent(e, CARD)
  ELSE IF t = "Corner Awarded" \/ t = "Corner" THEN canonicalEvent(e, CORNER)
  ELSE IF t = "Free Kick Won" THEN canonicalEvent(e, FREE_KICK_WON)
  ELSE IF t = "Throw-in" THEN canonicalEvent(e, THROW_IN)
  ELSE IF t = "Goal Kick" THEN canonicalEvent(e, GOAL_KICK)
  ELSE IF t = "Offside" THEN canonicalEvent(e, OFFSIDE)
  ELSE IF t = "Substitution" THEN canonicalEvent(e, SUB)
  ELSE IF t = "Pass" /\ (e.shot_assist \/ e.goal_assist
                         \/ (e.end_location # <<>> /\ isIntoBox(e.end_location)))
  THEN canonicalEvent(e, IF e.goal_assist THEN ASSIST
                         ELSE IF e.shot_assist THEN KEY_PASS ELSE PASS_INTO_BOX)
  ELSE IF t = "VAR" THEN canonicalEvent(e, VAR)
  ELSE Null

\* .map(e => normalizeEvent(e)).filter(Boolean)
RECURSIVE mapFilter(_)
mapFilter(recs) ==
  IF recs = <<>> THEN <<>>
  ELSE LET c == normalizeEvent(Head(recs))
       IN  (IF c = Null THEN <<>> ELSE <<c>>) \o mapFilter(Tail(recs))

\* .sort((a, b) => a.ts - b.ts): stable, ascending ts
RECURSIVE insertByTs(_, _)
insertByTs(sorted, c) ==
  IF sorted = <<>> THEN <<c>>
  ELSE IF c.ts < Head(sorted).ts THEN <<c>> \o sorted
  ELSE <<Head(sorted)>> \o insertByTs(Tail(sorted), c)

\* The canonical events left in file order
sortByTsKeepsOrder(cs) == cs

RECURSIVE sortByTs(_)
sortByTs(cs) ==
  IF cs = <<>> THEN <<>>
  ELSE insertByTs(sortByTs(SubSeq(cs, 1, Len(cs) - 1)), cs[Len(cs)])

normalizedOf(recs) == sortByTs(mapFilter(recs))

\* ----------------------------------------------------------- replay server

\* Number of /stream connections made in a run.
MaxConn == 3

Conns == 1..MaxConn

\* --speed values
Speeds == {1, 5, 6}

\* A provider record
Rec(type, minute, second, period) ==
  [type |-> type, team |-> "Barcelona", player |-> "Messi", minute |-> minute,
   second |-> second, period |-> period, outcome |-> "", gkType |-> <<>>,
   goal_assist |-> FALSE, shot_assist |-> FALSE, end_location |-> <<>>]

NoRecord == Rec("", 0, 0, 0)

\* The events.json files replayed: none, one with events at ts 0 and 50, one
\* out of order with a record of no mapping (ts 62, dropped, 10 and 12)
EventFiles ==
  { <<>>,
    << Rec("Foul Committed", 0, 0, 1), Rec("Corner", 0, 50, 1) >>,
    << [Rec("Shot", 1, 2, 1) EXCEPT !.outcome = "Goal"], Rec("Ball Receipt", 0, 5, 1),
       Rec("Foul Committed", 0, 10, 1), Rec("Offside", 0, 12, 1) >> }

\* SSE messages
helloMsg(speed, n) == [event |-> "hello", speed |-> speed, events |-> n]
tickMsg(i, ev) == [event |-> "tick", i |-> i, ts |-> ev.ts, ev |-> ev]
doneMsg == [event |-> "done"]

\* A broadcast that also writes to the connections that have left the Set
broadcastToEveryConn(box, cl, msg) ==
  [c \in DOMAIN box |-> IF box[c] # <<>> THEN Append(box[c], msg) ELSE box[c]]

\* c.write(msg) for every c of clients
broadcast(box, cl, msg) ==
  [c \in DOMAIN box |-> IF c \in cl THEN Append(box[c], msg) ELSE box[c]]

\* clamp(((ev.ts - prev) / SPEED) * 1000, 30, 5000) in units of 1/SPEED ms
\* (exact for SPEED > 0): the sleep lasts gap / SPEED milliseconds
gapOf(ts, prev, speed) == clamp((ts - prev) * 1000, 30 * speed, 5000 * speed)

\* A start on every first client, whatever the flag
startsReplayOnFirstClient(cl, rep) == Cardinality(cl) = 1

\* The /stream handler's call of replay() reaches `replaying = true`: the
\* handler's test (first client and not replaying) and replay's own guard
startsReplay(cl, rep) == (Cardinality(cl) = 1 /\ ~rep) /\ ~rep

\* No compressor run in progress: the state of these variables in a run of
\* one of the servers alone
CompressorOff == rawList = <<>> /\ compressed = Null

\* The facet server has received no request
FacetServerOff == facetRequest = NoRequest /\ facetResponse = NoExchange

\* The snapshotter is not running
SnapshotterOff ==
  /\ eventLog = <<>> /\ nextWindow = 0
  /\ runningScore = [home |-> 0, away |-> 0] /\ snapshots = <<>>

\* No call of withBackoff has been made
RetryOff == backoff = [pc |-> "off"]

\* The bridge is not running
BridgeOff == bridge = [pc |-> "off"]

ClientsOff == RetryOff /\ BridgeOff

OfflineOff == CompressorOff /\ FacetServerOff /\ SnapshotterOff /\ ClientsOff

\* The replay server off: the state of these variables in a run of the
\* snapshot writer service alone
ReplayServerOff ==
  /\ all = <<>> /\ normalized = <<>> /\ SPEED = 6
  /\ clients = {} /\ replaying = FALSE /\ loops = <<>>
  /\ conn = [c \in Conns |-> "new"] /\ inbox = [c \in Conns |-> <<>>]
  /\ emitted = <<>> /\ waits = <<>> /\ runs = 0
  /\ record = NoRecord /\ canonical = Null

\* The replay server after start-up: events loaded and prepared, no client
InitReplay ==
  /\ ServiceInit
  /\ OfflineOff
  /\ all \in EventFiles
  /\ normalized = normalizedOf(all)
  /\ SPEED \in Speeds
  /\ clients = {} /\ replaying = FALSE /\ loops = <<>>
  /\ conn = [c \in Conns |-> "new"] /\ inbox = [c \in Conns |-> <<>>]
  /\ emitted = <<>> /\ waits = <<>> /\ runs = 0
  /\ record = NoRecord /\ canonical = Null

\* The sleep replay() enters before emitting normalized[i] (0-based i)
sleepAt(i, prev) ==
  [i |-> i, prev |-> prev, gap |-> gapOf(normalized[i + 1].ts, prev, SPEED)]

waitOf(l) == [ts |-> normalized[l.i + 1].ts, prev |-> l.prev, gap |-> l.gap]

\* GET /stream: hello, join the Set, start replay() if first and not replaying.
\* replay() runs to its first sleep, or to its end when there are no events.
Connect(c) ==
  /\ conn[c] = "new"
  /\ \A d \in Conns : d < c => conn[d] # "new"
  /\ conn' = [conn EXCEPT ![c] = "open"]
  /\ clients' = clients \cup {c}
  /\ LET box == [inbox EXCEPT ![c] = <<helloMsg(SPEED, Len(normalized))>>]
     IN  IF startsReplay(clients', replaying)
         THEN /\ runs' = runs + 1
              /\ IF Len(normalized) = 0
                 THEN /\ inbox' = broadcast(box, clients', doneMsg)
                      /\ replaying' = FALSE
                      /\ UNCHANGED <<loops, waits>>
                 ELSE /\ inbox' = box
                      /\ replaying' = TRUE
                      /\ loops' = Append(loops, sleepAt(0, 0))
                      /\ waits' = Append(waits, waitOf(sleepAt(0, 0)))
         ELSE /\ inbox' = box
              /\ UNCHANGED <<replaying, loops, waits, runs>>
  /\ UNCHANGED <<all, normalized, SPEED, emitted, normalizerVars, serviceVars,
               offlineVars>>

\* req.on('close'): the client leaves the Set
Close(c) ==
  /\ conn[c] = "open"
  /\ conn' = [conn EXCEPT ![c] = "closed"]
  /\ clients' = clients \ {c}
  /\ UNCHANGED <<all, normalized, SPEED, replaying, loops, inbox, emitted, waits, runs,
                 normalizerVars, serviceVars, offlineVars>>

\* The sequence s without its k-th element
removeAt(s, k) == SubSeq(s, 1, k - 1) \o SubSeq(s, k + 1, Len(s))

\* A sleep of replay() ends: broadcast the tick, then sleep for the next
\* event or broadcast done and clear the flag
Wake(k) ==
  /\ k \in 1..Len(loops)
  /\ LET l   == loops[k]
         ev  == normalized[l.i + 1]
         box == broadcast(inbox, clients, tickMsg(l.i, ev))
     IN  /\ emitted' = Append(emitted, [i |-> l.i, ts |-> ev.ts, ev |-> ev])
         /\ IF l.i + 1 < Len(normalized)
            THEN /\ loops' = [loops EXCEPT ![k] = sleepAt(l.i + 1, ev.ts)]
                 /\ waits' = Append(waits, waitOf(sleepAt(l.i + 1, ev.ts)))
                 /\ inbox' = box
                 /\ UNCHANGED replaying
            ELSE /\ loops' = removeAt(loops, k)
                 /\ inbox' = broadcast(box, clients, doneMsg)
                 /\ replaying' = FALSE
                 /\ UNCHANGED waits
  /\ UNCHANGED <<all, normalized, SPEED, clients, conn, runs, normalizerVars, serviceVars,
               offlineVars>>

NextReplay ==
  \/ \E c \in Conns : Connect(c)
  \/ \E c \in Conns : Close(c)
  \/ \E k \in 1..MaxConn : Wake(k)

SpecReplay == InitReplay /\ [][NextReplay]_vars

\* ------------------------------------------------------- normalizer inputs

\* goalkeeper.type.name values, and what line 75 makes of them
ShotSaved == <<"S", "h", "o", "t", " ", "S", "a", "v", "e", "d">>
Punched == <<"P", "u", "n", "c", "h", "e", "d">>
SHOT_SAVED == <<"S", "H", "O", "T", "_", "S", "A", "V", "E", "D">>
PUNCHED == <<"P", "U", "N", "C", "H", "E", "D">>

\* Records that differ in their clock: minute, second, period (0: missing)
TimingRecords ==
  { Rec("Foul Committed", m, sec, p) :
      m \in {0, 10, 44, 45, 50, 90, 100}, sec \in {0, 59}, p \in 0..5 }

ShotRecords ==
  { [Rec("Shot", 10, 0, 1) EXCEPT !.outcome = o] : o \in {"Goal", "Saved", "Off T", ""} }

PassRecords ==
  { [Rec("Pass", 10, 0, 1) EXCEPT !.goal_assist = ga, !.shot_assist = sa,
                                   !.end_location = loc] :
      ga \in BOOLEAN, sa \in BOOLEAN,
      loc \in { <<>>, <<110>>, <<102, 18>>, <<102, 62>>, <<101, 40>>,
                <<110, 17>>, <<110, 63>>, <<120, 40>> } }

GoalKeeperRecords ==
  { [Rec("Goal Keeper", 10, 0, 1) EXCEPT !.gkType = g] : g \in {<<>>, ShotSaved, Punched} }

OtherRecords ==
  { Rec(t, 10, 0, 1) :
      t \in { "Bad Behaviour", "Corner Awarded", "Corner", "Free Kick Won", "Throw-in",
              "Goal Kick", "Offside", "Substitution", "VAR", "Ball Receipt", "" } }

Records ==
  TimingRecords \cup ShotRecords \cup PassRecords \cup GoalKeeperRecords \cup OtherRecords

\* normalizeEvent is applied to one record
Normalize(e) ==
  /\ record' = e
  /\ canonical' = normalizeEvent(e)
  /\ UNCHANGED <<emitterVars, serviceVars, offlineVars>>

InitNormalizer == ServiceInit /\ ReplayServerOff /\ OfflineOff

NextNormalizer == \E e \in Records : Normalize(e)

SpecNormalizer == InitNormalizer /\ [][NextNormalizer]_vars

\* ------------------------------------------------------- compressor runs
\* stkmCompress (stkm.js) applied to the raw list of one window. An event of
\* the list is a canonical event [ts, type, team, player, on_target]:
\* on_target is data.on_target, team "" and player "" stand for null.

MaxCompressed == 2

Canon(type, team, player, on_target) ==
  [type |-> type, team |-> team, player |-> player, on_target |-> on_target]

CompressorEvents ==
  { Canon(GOAL, "Barcelona", "Messi", TRUE),
    Canon(SHOT, "Barcelona", "Suarez", TRUE),
    Canon(SHOT, "Atletico", "Griezmann", FALSE),
    Canon(PASS_INTO_BOX, "Barcelona", "", FALSE),
    Canon(CARD, "Barcelona", "Pique", FALSE),
    Canon(CORNER, "Alaves", "", FALSE),
    Canon(FOUL, "", "", FALSE),
    Canon(GOAL_KICK, "Atletico", "", FALSE),
    Canon(SHOT_SAVED, "Atletico", "Oblak", FALSE) }

\* The events of a window in arrival order, their timestamps ascending
Stamped(bodies) ==
  [i \in 1..Len(bodies) |->
     [ts |-> 10 * i, type |-> bodies[i].type, team |-> bodies[i].team,
      player |-> bodies[i].player, on_target |-> bodies[i].on_target]]

RawLists(bodies, n) ==
  {Stamped(b) : b \in UNION {[1..k -> bodies] : k \in 0..n}}

WindowMeta == [gameId |-> "g1", start |-> 0, end |-> WINDOW_SIZE_SEC]

InitCompressor ==
  /\ ServiceInit /\ ReplayServerOff /\ FacetServerOff /\ SnapshotterOff
  /\ ClientsOff
  /\ rawList \in RawLists(CompressorEvents, MaxCompressed)
  /\ compressed = Null

Compress ==
  /\ compressed = Null
  /\ compressed' = stkmCompress(rawList, WindowMeta)
  /\ UNCHANGED <<rawList, serviceVars, replayVars, facetVars, snapshotterVars,
                 clientVars>>

NextCompressor == Compress

SpecCompressor == InitCompressor /\ [][NextCompressor]_vars

\* ----------------------------------------------------------------- facets
\* facets.js over a raw window slice. A score is kept as the fraction
\* [num, den]. A facet that throws has the value Raised.

PASS == <<"P", "A", "S", "S">>

shotOnTarget(e) == e.type = GOAL \/ (e.type = SHOT /\ e.on_target)

\* new Set(events.map(e => e.team).filter(Boolean)), in insertion order
RECURSIVE setOfTeams(_, _)
setOfTeams(evs, arr) ==
  IF evs = <<>> THEN arr
  ELSE LET t == Head(evs).team
       IN  setOfTeams(Tail(evs),
                      IF t = "" \/ (\E i \in 1..Len(arr) : arr[i] = t) THEN arr
                      ELSE Append(arr, t))

uniqTeams(evs) ==
  LET arr == setOfTeams(evs, <<>>)
  IN  IF Len(arr) >= 2 THEN SubSeq(arr, 1, 2)
      ELSE << IF Len(arr) >= 1 THEN arr[1] ELSE "Home", "Away" >>

thirdsByType(e) ==
  IF e.type \in {CORNER, PASS_INTO_BOX, SHOT, GOAL, KEY_PASS, ASSIST} THEN "att" ELSE "mid"

\* A splitter that opens a chain at every event
startsChainAlways(chains, e) == TRUE

\* toChains: `!cur || cur.team !== e.team`, cur the last of chains
startsChain(chains, e) == chains = <<>> \/ chains[Len(chains)].team # e.team

\* toChains, the end markers
endMarker(e, end) ==
  IF e.type = SHOT THEN (IF shotOnTarget(e) THEN "shot_on_target" ELSE "shot")
  ELSE IF e.type = GOAL THEN "goal"
  ELSE IF e.type = CORNER THEN "corner_won"
  ELSE end

\* toChains, the loop: chains holds the chains pushed so far and cur last
RECURSIVE chainsFrom(_, _)
chainsFrom(evs, chains) ==
  IF evs = <<>> THEN chains
  ELSE LET e == Head(evs) IN
       IF e.team = "" THEN chainsFrom(Tail(evs), chains)
       ELSE LET opened == IF startsChain(chains, e)
                          THEN Append(chains, [team |-> e.team, dur |-> 0, passes |-> 0,
                                               start_third |-> thirdsByType(e),
                                               end |-> "lost"])
                          ELSE chains
                n      == Len(opened)
                cur    == [opened[n] EXCEPT
                             !.dur = @ + 3,
                             !.passes = IF e.type = PASS_INTO_BOX THEN @ + 1 ELSE @,
                             !.end = endMarker(e, @)]
            IN  chainsFrom(Tail(evs), [opened EXCEPT ![n] = cur])

toChains(evs) == chainsFrom(evs, <<>>)

facet_PCS(evs) ==
  LET chains == toChains(evs)
      ids    == 1..Len(chains)
      shot   == {"shot", "shot_on_target", "goal"}
  IN  [counts |->
         [T \in {chains[i].team : i \in ids} |->
            [chains_total |-> Cardinality({i \in ids : chains[i].team = T}),
             reached_final_third |->
               Cardinality({i \in ids : chains[i].team = T
                                        /\ chains[i].end \in shot \cup {"corner_won"}}),
             reached_box |->
               Cardinality({i \in ids : chains[i].team = T /\ chains[i].end \in shot}),
             shots |->
               Cardinality({i \in ids : chains[i].team = T /\ chains[i].end \in shot})]]]

\* facet_PTF, the loop: the values of byPlayer in insertion order
RECURSIVE byPlayerOf(_, _)
byPlayerOf(evs, m) ==
  IF evs = <<>> THEN m
  ELSE LET e == Head(evs) IN
       IF e.player = "" THEN byPlayerOf(Tail(evs), m)
       ELSE LET has == \E i \in 1..Len(m) : m[i].team = e.team /\ m[i].player = e.player
                m1  == IF has THEN m
                       ELSE Append(m, [player |-> e.player, team |-> e.team, shots |-> 0,
                                       sot |-> 0, box_touches |-> 0, key_passes |-> 0])
                k   == CHOOSE i \in 1..Len(m1) :
                         m1[i].team = e.team /\ m1[i].player = e.player
                v   == [m1[k] EXCEPT
                          !.shots = @ + (IF e.type \in {SHOT, GOAL} THEN 1 ELSE 0),
                          !.sot = @ + (IF shotOnTarget(e) THEN 1 ELSE 0),
                          !.box_touches = @ + (IF e.type = PASS_INTO_BOX THEN 1 ELSE 0),
                          !.key_passes = @ + (IF e.type \in {KEY_PASS, ASSIST} THEN 1 ELSE 0)]
            IN  byPlayerOf(Tail(evs), [m1 EXCEPT ![k] = v])

hasThreat(p) == p.shots # 0 \/ p.box_touches # 0 \/ p.key_passes # 0

threatScore(p) == p.sot * 3 + p.shots * 2 + p.box_touches + p.key_passes

\* Array.prototype.sort with the comparator of facet_PTF: descending by
\* score, stable
insertByThreat(sorted, p) ==
  LET k == Cardinality({i \in 1..Len(sorted) : threatScore(sorted[i]) >= threatScore(p)})
  IN  SubSeq(sorted, 1, k) \o <<p>> \o SubSeq(sorted, k + 1, Len(sorted))

RECURSIVE sortByThreat(_)
sortByThreat(arr) ==
  IF arr = <<>> THEN <<>>
  ELSE insertByThreat(sortByThreat(SubSeq(arr, 1, Len(arr) - 1)), arr[Len(arr)])

\* A facet that returns every attacker
topAttackersUncut(arr) == arr

\* arr.slice(0,3)
topAttackers(arr) == slice0(arr, 3)

facet_PTF(evs) ==
  [top_attackers |->
     topAttackers(sortByThreat(SelectSeq(byPlayerOf(evs, <<>>), hasThreat)))]

\* A cap with no ceiling
capFromBelowOnly(n2, mx) == [num |-> max(0, n2), den |-> 2 * mx]

\* cap(n, max) = Math.max(0, Math.min(1, n/max)) for n = n2/2
cap(n2, mx) == [num |-> max(0, min(2 * mx, n2)), den |-> 2 * mx]

facet_MMH(evs) ==
  LET teams   == uniqTeams(evs)
      shotsH  == CountIf(evs, LAMBDA e : e.team = teams[1] /\ e.type \in {SHOT, GOAL})
      shotsA  == CountIf(evs, LAMBDA e : e.team = teams[2] /\ e.type \in {SHOT, GOAL})
      sotH    == CountIf(evs, LAMBDA e : e.team = teams[1] /\ shotOnTarget(e))
      fouls   == CountIf(evs, LAMBDA e : e.type = FOUL)
      corners == CountIf(evs, LAMBDA e : e.type = CORNER)
  IN  [hooks |->
         [goal_in_next_interval_score |->
            [T \in {teams[1], teams[2]} |->
               IF T = teams[2] THEN cap(2 * shotsA, 4) ELSE cap(2 * shotsH + sotH, 4)],
          cards_in_next_interval_score |-> cap(2 * fouls, 6),
          corners_in_next_interval_score |-> cap(2 * corners, 4)]]

SAVE == <<"S", "A", "V", "E">>
CLAIM == <<"C", "L", "A", "I", "M">>
PUNCH == <<"P", "U", "N", "C", "H">>

\* The value of a call that throws (a TypeError in facet_KH)
Raised == [raised |-> "TypeError"]

\* The property key e.team makes: null reads and writes the key "null"
keyOf(team) == IF team = "" THEN "null" ELSE team

\* An object {[teams[0]]:0, [teams[1]]:0} after `o[e.team] = (o[e.team]||0)+1`
\* for every event that satisfies P
tallyByTeam(evs, teams, P(_)) ==
  [T \in {teams[1], teams[2]} \cup {keyOf(evs[i].team) : i \in {j \in 1..Len(evs) : P(evs[j])}} |->
     CountIf(evs, LAMBDA e : P(e) /\ keyOf(e.team) = T)]

\* An object {[teams[0]]: n(teams[0]), [teams[1]]: n(teams[1])} of filter counts
countByTeam(evs, teams, P(_)) ==
  [T \in {teams[1], teams[2]} |-> CountIf(evs, LAMBDA e : e.team = T /\ P(e))]

\* facet_PAD: the keys of repeat_by in insertion order
RECURSIVE repeatKeys(_, _)
repeatKeys(evs, arr) ==
  IF evs = <<>> THEN arr
  ELSE LET e == Head(evs)
       IN  repeatKeys(Tail(evs),
                      IF e.type \notin {FOUL, CARD} \/ e.player = ""
                         \/ (\E i \in 1..Len(arr) : arr[i] = e.player)
                      THEN arr ELSE Append(arr, e.player))

isRepeat(entry) == entry.count >= 2

facet_PAD(evs) ==
  LET teams == uniqTeams(evs)
      keys  == repeatKeys(evs, <<>>)
      by    == [i \in 1..Len(keys) |->
                  [player |-> keys[i],
                   count |-> CountIf(evs, LAMBDA e : e.type \in {FOUL, CARD}
                                                      /\ e.player = keys[i])]]
  IN  [fouls |-> tallyByTeam(evs, teams, LAMBDA e : e.type = FOUL),
       cards |-> tallyByTeam(evs, teams, LAMBDA e : e.type = CARD),
       repeat_fouler |-> SelectSeq(by, isRepeat)]

facet_SPT(evs) ==
  LET teams == uniqTeams(evs)
  IN  [corners |-> tallyByTeam(evs, teams, LAMBDA e : e.type = CORNER),
       free_kicks_danger_zone |->
         tallyByTeam(evs, teams, LAMBDA e : e.type \in {KEY_PASS, PASS_INTO_BOX})]

weightPerEventSec == 5

finalThirdTimeApprox(evs, team) ==
  CountIf(evs, LAMBDA e : e.team = team
                          /\ e.type \in {PASS_INTO_BOX, KEY_PASS, SHOT, GOAL, CORNER})
  * weightPerEventSec

facet_FTT(evs) ==
  LET teams == uniqTeams(evs)
  IN  [tilt_seconds_proxy |->
         [T \in {teams[1], teams[2]} |-> finalThirdTimeApprox(evs, T)],
       entries |->
         [final_third |->
            countByTeam(evs, teams, LAMBDA e : e.type \in {KEY_PASS, PASS_INTO_BOX, CORNER}),
          box |->
            countByTeam(evs, teams, LAMBDA e : e.type \in {PASS_INTO_BOX, SHOT, GOAL})]]

\* facet_KH: ka[e.team] is undefined for a team that is neither teams[0] nor
\* teams[1], and reading .saves of undefined throws
facet_KH(evs) ==
  LET teams == uniqTeams(evs)
      ka    == {teams[1], teams[2]}
  IN  IF \E i \in 1..Len(evs) : evs[i].type \in {SAVE, CLAIM, PUNCH} /\ evs[i].team \notin ka
      THEN Raised
      ELSE [keeper_actions |->
              [T \in ka |->
                 [saves |-> CountIf(evs, LAMBDA e : e.team = T /\ e.type = SAVE),
                  claims |-> CountIf(evs, LAMBDA e : e.team = T /\ e.type = CLAIM),
                  punches |-> CountIf(evs, LAMBDA e : e.team = T /\ e.type = PUNCH)]]]

\* facet_NCMS; summary is kept as the values the template interpolates
facet_NCMS(evs) ==
  LET teams   == uniqTeams(evs)
      shots   == countByTeam(evs, teams, LAMBDA e : e.type \in {SHOT, GOAL})
      sot     == countByTeam(evs, teams, LAMBDA e : shotOnTarget(e))
      corners == countByTeam(evs, teams, LAMBDA e : e.type = CORNER)
      cards   == countByTeam(evs, teams, LAMBDA e : e.type = CARD)
  IN  [summary |-> [shots |-> << <<teams[1], shots[teams[1]], sot[teams[1]]>>,
                                 <<teams[2], shots[teams[2]], sot[teams[2]]>> >>,
                    corners |-> <<teams[1], corners[teams[1]], corners[teams[2]], teams[2]>>,
                    cards |-> << <<teams[1], cards[teams[1]]>>, <<teams[2], cards[teams[2]]>> >>],
       stats |-> [shots |-> shots, sot |-> sot, corners |-> corners, cards |-> cards]]

\* ----------------------------------------------------------- facet server
\* facet_server.js over the tables windows and snapshots; the queries
\* themselves succeed, and .single() fails unless exactly one row matches.

FacetKinds == {"PTF", "PAD", "SPT", "FTT", "PCS", "KH", "MMH", "NCMS"}

facetMap(facet, evs) ==
  CASE facet = "PTF" -> facet_PTF(evs)
    [] facet = "PCS" -> facet_PCS(evs)
    [] facet = "MMH" -> facet_MMH(evs)
    [] facet = "PAD" -> facet_PAD(evs)
    [] facet = "SPT" -> facet_SPT(evs)
    [] facet = "FTT" -> facet_FTT(evs)
    [] facet = "KH" -> facet_KH(evs)
    [] facet = "NCMS" -> facet_NCMS(evs)

\* The ids of the rows of table windows that overlap (start, end), by
\* ascending start_sec
overlapping(rows, g, start, end) ==
  LET hit == {i \in 1..Len(rows) : rows[i].game_id = g /\ rows[i].start_sec < end
                                  /\ rows[i].end_sec > start}
      rank(i) == Cardinality({j \in hit : rows[j].start_sec < rows[i].start_sec
                                          \/ (rows[j].start_sec = rows[i].start_sec /\ j < i)})
  IN  [k \in 1..Cardinality(hit) |-> CHOOSE i \in hit : rank(i) = k - 1]

\* readRawWindow, the loop over the windows found
RECURSIVE mergeRaw(_, _)
mergeRaw(snaps, ids) ==
  IF ids = <<>> THEN <<>>
  ELSE LET rows == {s \in snaps : s.window_id = Head(ids) /\ s.compressed_kind = "raw"}
       IN  (IF Cardinality(rows) = 1 THEN (CHOOSE s \in rows : TRUE).raw_json ELSE <<>>)
           \o mergeRaw(snaps, Tail(ids))

\* readRawWindow: null, or allEvents
readRawWindow(wins, snaps, g, start, end) ==
  LET ids == overlapping(wins, g, start, end)
  IN  IF ids = <<>> THEN [isNull |-> TRUE, events |-> <<>>]
      ELSE [isNull |-> FALSE, events |-> mergeRaw(snaps, ids)]

\* The response of POST /get_facet
getFacet(wins, snaps, r) ==
  IF r.gameId = "" \/ r.start.t # "number" \/ r.end.t # "number" \/ r.facet = ""
  THEN [status |-> 400, error |-> "Missing gameId/start/end/facet"]
  ELSE IF r.facet \notin FacetKinds
  THEN [status |-> 400, error |-> "Unknown facet"]
  ELSE LET rw == readRawWindow(wins, snaps, r.gameId, r.start.v, r.end.v)
       IN  IF rw.isNull
           THEN [status |-> 404, error |-> "Raw window not found"]
           ELSE IF facetMap(r.facet, rw.events) = Raised
           THEN [status |-> 500, error |-> "Internal error"]
           ELSE [status |-> 200, window |-> [start |-> r.start.v, end |-> r.end.v],
                 facet |-> r.facet, data |-> facetMap(r.facet, rw.events)]

MaxFacetEvents == 4

FacetEvents ==
  { Canon(SHOT, "A", "X", TRUE),
    Canon(PASS_INTO_BOX, "A", "X", FALSE),
    Canon(PASS, "A", "X", FALSE),
    Canon(FOUL, "B", "Y", FALSE),
    Canon(GOAL, "B", "W", TRUE),
    Canon(KEY_PASS, "A", "Z", FALSE),
    Canon(SHOT, "", "V", FALSE),
    Canon(CORNER, "B", "", FALSE) }

\* What the tables hold for window 0-300 of g1: nothing, the window row
\* alone, the row with the snapshot the writer service stores (kind STKM),
\* or the row with a snapshot of kind raw
StoredWindow == [game_id |-> "g1", start_sec |-> 0, end_sec |-> WINDOW_SIZE_SEC]

StoredSnapshot(raw, kind) ==
  [window_id |-> 1, raw_json |-> raw, compressed_json |-> <<>>, compressed_kind |-> kind]

Stores ==
  { [windows |-> <<>>, snapshots |-> {}],
    [windows |-> <<StoredWindow>>, snapshots |-> {}] }
  \cup { [windows |-> <<StoredWindow>>, snapshots |-> {StoredSnapshot(raw, "STKM")}] :
           raw \in RawLists(FacetEvents, 1) }
  \cup { [windows |-> <<StoredWindow>>, snapshots |-> {StoredSnapshot(raw, "raw")}] :
           raw \in RawLists(FacetEvents, MaxFacetEvents) }

FacetRequests ==
  { [gameId |-> "g1", start |-> Num(0), end |-> Num(WINDOW_SIZE_SEC), facet |-> f] :
      f \in {"PTF", "PCS", "MMH", "XYZ"} }
  \cup { [gameId |-> "g1", start |-> Num(0), end |-> Undefined, facet |-> "PTF"],
         [gameId |-> "g2", start |-> Num(0), end |-> Num(WINDOW_SIZE_SEC), facet |-> "PTF"] }

InitFacets ==
  /\ HandlersInit /\ ReplayServerOff /\ CompressorOff /\ FacetServerOff
  /\ SnapshotterOff /\ ClientsOff
  /\ dbGames = {"g1"}
  /\ \E st \in Stores : dbWindows = st.windows /\ dbSnapshots = st.snapshots

\* POST /get_facet
GetFacet(r) ==
  /\ facetRequest' = r
  /\ facetResponse' = getFacet(dbWindows, dbSnapshots, r)
  /\ UNCHANGED <<serviceVars, replayVars, compressorVars, snapshotterVars, clientVars>>

NextFacets == \E r \in FacetRequests : GetFacet(r)

SpecFacets == InitFacets /\ [][NextFacets]_vars

\* Every facet over raw lists that hold goalkeeper and discipline events
MaxKeeperEvents == 3

KeeperEvents ==
  { Canon(SAVE, "A", "K", FALSE),
    Canon(PUNCH, "B", "L", FALSE),
    Canon(CLAIM, "C", "M", FALSE),
    Canon(SAVE, "", "", FALSE),
    Canon(FOUL, "C", "Y", FALSE),
    Canon(CARD, "B", "Y", FALSE),
    Canon(SHOT, "A", "X", TRUE),
    Canon(CORNER, "", "", FALSE) }

ExtractorRequests ==
  { [gameId |-> "g1", start |-> Num(0), end |-> Num(WINDOW_SIZE_SEC), facet |-> f] :
      f \in FacetKinds }

InitExtractors ==
  /\ HandlersInit /\ ReplayServerOff /\ CompressorOff /\ FacetServerOff
  /\ SnapshotterOff /\ ClientsOff
  /\ dbGames = {"g1"}
  /\ dbWindows = <<StoredWindow>>
  /\ \E raw \in RawLists(KeeperEvents, MaxKeeperEvents) :
        dbSnapshots = {StoredSnapshot(raw, "raw")}

NextExtractors == \E r \in ExtractorRequests : GetFacet(r)

SpecExtractors == InitExtractors /\ [][NextExtractors]_vars

\* ------------------------------------------------------ offline snapshotter
\* snapshotter.js: one run over an events file. A key moment carries player
\* "" and on_target FALSE where the code leaves the key out; the card
\* annotations are left out.

MaxLog == 3

WINDOW == 300

\* secondsFor: the period offset is always added
secondsFor(e) ==
  periodOffset(IF e.period = 0 THEN 1 ELSE e.period) + (e.minute * 60 + e.second)

intoBox(endLoc) ==
  IF Len(endLoc) < 2 THEN FALSE
  ELSE endLoc[1] >= 102 /\ endLoc[2] >= 18 /\ endLoc[2] <= 62

normalizedEvent(e, type, onTarget) ==
  [ts |-> secondsFor(e), type |-> type, team |-> e.team, player |-> e.player,
   on_target |-> onTarget]

normalize(e) ==
  LET tname == e.type IN
  IF tname = "Shot"
  THEN normalizedEvent(e, IF e.outcome = "Goal" THEN GOAL ELSE SHOT,
                  e.outcome \in {"Saved", "Saved To Post", "Goal"})
  ELSE IF tname = "Foul Committed" THEN normalizedEvent(e, FOUL, FALSE)
  ELSE IF tname = "Bad Behaviour" THEN normalizedEvent(e, CARD, FALSE)
  ELSE IF tname = "Corner Awarded" \/ tname = "Corner" THEN normalizedEvent(e, CORNER, FALSE)
  ELSE IF tname = "Free Kick Won" THEN normalizedEvent(e, FREE_KICK_WON, FALSE)
  ELSE IF tname = "Substitution" THEN normalizedEvent(e, SUB, FALSE)
  ELSE IF tname = "Goal Keeper"
  THEN normalizedEvent(e, replaceSpaces(toUpperCase(e.gkType)), FALSE)
  ELSE IF tname = "Pass" /\ (e.shot_assist \/ e.goal_assist
                             \/ (e.end_location # <<>> /\ intoBox(e.end_location)))
  THEN normalizedEvent(e, IF e.goal_assist THEN ASSIST
                     ELSE IF e.shot_assist THEN KEY_PASS ELSE PASS_INTO_BOX, FALSE)
  ELSE Null

\* events.map(normalize).filter(Boolean)
RECURSIVE normalizeAll(_)
normalizeAll(log) ==
  IF log = <<>> THEN <<>>
  ELSE LET c == normalize(Head(log))
       IN  (IF c = Null THEN <<>> ELSE <<c>>) \o normalizeAll(Tail(log))

norm(log) == sortByTs(normalizeAll(log))

maxTs(log) == IF Len(norm(log)) > 0 THEN norm(log)[Len(norm(log))].ts ELSE 0

\* The windows array: one window per WINDOW seconds from 0 to maxTs
windows(log) ==
  [k \in 1..(maxTs(log) \div WINDOW + 1) |->
     [start |-> (k - 1) * WINDOW, end |-> k * WINDOW,
      events |-> SelectSeq(norm(log), LAMBDA ev : ev.ts >= (k - 1) * WINDOW
                                                  /\ ev.ts < k * WINDOW)]]

detectTeams(evs) ==
  LET names == setOfTeams(evs, <<>>)
  IN  IF Len(names) >= 2 THEN <<names[1], names[2]>> ELSE <<"Home", "Away">>

homeTeam(log) == detectTeams(norm(log))[1]
awayTeam(log) == detectTeams(norm(log))[2]

\* computeSTKM, its counts
count(evs, type, team) == CountIf(evs, LAMBDA e : e.type = type /\ e.team = team)

sotOf(evs, team) == CountIf(evs, LAMBDA e : e.team = team /\ shotOnTarget(e))

impactful(evs) ==
  SelectSeq(evs, LAMBDA e : e.type \in {GOAL, SHOT, CORNER, CARD, FOUL, PASS_INTO_BOX,
                                        KEY_PASS, ASSIST})

\* impactful.slice(-4).map(...)
lastFour(evs) ==
  LET last == IF Len(evs) <= 4 THEN evs ELSE SubSeq(evs, Len(evs) - 3, Len(evs))
  IN  [i \in 1..Len(last) |->
         [ts |-> last[i].ts, type |-> last[i].type, team |-> last[i].team,
          player |-> last[i].player, on_target |-> last[i].on_target]]

\* runningScore after the goals of a window
scoreAfter(score, evs, home, away) ==
  [home |-> score.home + count(evs, GOAL, home),
   away |-> score.away + count(evs, GOAL, away)]

stateOf(evs, home, away) ==
  LET both(f(_)) == [home |-> f(home), away |-> f(away)]
  IN  [shots           |-> both(LAMBDA t : count(evs, SHOT, t) + count(evs, GOAL, t)),
       shots_on_target |-> both(LAMBDA t : sotOf(evs, t)),
       box_entries     |-> both(LAMBDA t : count(evs, PASS_INTO_BOX, t)),
       corners         |-> both(LAMBDA t : count(evs, CORNER, t)),
       fouls           |-> both(LAMBDA t : count(evs, FOUL, t)),
       cards           |-> both(LAMBDA t : count(evs, CARD, t))]

\* The deltas against prevStkm, Null for the first snapshot written
trendsOf(state, prevStkm) ==
  IF prevStkm = Null THEN Null
  ELSE [shot_delta   |-> [home |-> state.shots.home - prevStkm.state.shots.home,
                          away |-> state.shots.away - prevStkm.state.shots.away],
        card_delta   |-> [home |-> state.cards.home - prevStkm.state.cards.home,
                          away |-> state.cards.away - prevStkm.state.cards.away],
        corner_delta |-> [home |-> state.corners.home - prevStkm.state.corners.home,
                          away |-> state.corners.away - prevStkm.state.corners.away]]

computeSTKM(win, prevStkm, score, home, away) ==
  LET running == scoreAfter(score, win.events, home, away)
      state   == stateOf(win.events, home, away)
  IN  [window |-> [start |-> win.start, end |-> win.end,
                   minute_range |-> <<win.start \div 60, win.end \div 60>>,
                   period |-> IF win.end <= 45 * 60 THEN 1
                              ELSE IF win.end <= 90 * 60 THEN 2 ELSE 3],
       score |-> [home |-> running.home, away |-> running.away,
                  home_name |-> home, away_name |-> away],
       state |-> state,
       key_moments |-> lastFour(impactful(win.events)),
       trends_vs_prev |-> trendsOf(state, prevStkm)]

\* A record of the events file
LogRec(type, team, minute, outcome) ==
  [type |-> type, team |-> team, player |-> "", minute |-> minute, second |-> 0,
   period |-> 1, outcome |-> outcome, gkType |-> <<>>, goal_assist |-> FALSE,
   shot_assist |-> FALSE, end_location |-> <<>>]

LogRecords ==
  { LogRec("Shot", "Barcelona", 1, "Goal"),
    LogRec("Shot", "Alaves", 6, "Goal"),
    LogRec("Shot", "", 2, "Goal"),
    LogRec("Shot", "Girona", 7, "Goal"),
    LogRec("Shot", "Barcelona", 6, "Saved"),
    LogRec("Shot", "Barcelona", 11, "Saved"),
    LogRec("Foul Committed", "Alaves", 1, ""),
    LogRec("Ball Receipt", "Barcelona", 3, "") }

EventLogs == UNION {[1..n -> LogRecords] : n \in 0..MaxLog}

InitSnapshotter ==
  /\ ServiceInit /\ ReplayServerOff /\ CompressorOff /\ FacetServerOff
  /\ ClientsOff
  /\ eventLog \in EventLogs
  /\ nextWindow = 1
  /\ runningScore = [home |-> 0, away |-> 0]
  /\ snapshots = <<>>

\* prevStkm: the STKM written last
prevStkmOf(written) == IF written = <<>> THEN Null ELSE written[Len(written)].stkm

\* One turn of `for (const w of windows)`: nothing for a window with no
\* events, else the raw file and the STKM file of the window
WriteSnapshots ==
  /\ nextWindow >= 1 /\ nextWindow <= Len(windows(eventLog))
  /\ LET w    == windows(eventLog)[nextWindow]
         stkm == computeSTKM(w, prevStkmOf(snapshots), runningScore,
                             homeTeam(eventLog), awayTeam(eventLog))
     IN  IF w.events = <<>>
         THEN UNCHANGED <<runningScore, snapshots>>
         ELSE /\ runningScore' = [home |-> stkm.score.home, away |-> stkm.score.away]
              /\ snapshots' = Append(snapshots, [start |-> w.start, end |-> w.end,
                                                 raw |-> w.events, stkm |-> stkm])
  /\ nextWindow' = nextWindow + 1
  /\ UNCHANGED <<eventLog, serviceVars, replayVars, compressorVars, facetVars,
                 clientVars>>

NextSnapshotter == WriteSnapshots

SpecSnapshotter == InitSnapshotter /\ [][NextSnapshotter]_vars

\* --------------------------------------------------------------- withBackoff
\* retry.js: one call withBackoff(fn, opts). fn settles every time it is
\* called, with a result or with an error; Math.random() is kept in tenths.

MaxTries == 3

Options ==
  [tries : 0..MaxTries, baseMs : {500}, factor : {2}, jitter : BOOLEAN]

\* What a call of fn settles with: a result, or an error with this message
Resolved(v) == [ok |-> TRUE, value |-> v, message |-> <<>>]
Rejected(msg) == [ok |-> FALSE, value |-> "", message |-> msg]

Outcomes ==
  { Resolved("r1"), Resolved("r2"),
    Rejected(<<"g", "o", "t", " ", "5", "0", "3">>),
    Rejected(<<"U", "N", "A", "V", "A", "I", "L", "A", "B", "L", "E">>),
    Rejected(<<"4", "0", "0">>),
    Rejected(<<"o", "v", "e", "r", "l", "o", "a", "d", "e", "d">>),
    Rejected(<<>>) }

RetryableMarks ==
  { <<"4", "2", "9">>, <<"5", "0", "3">>, <<"5", "0", "0">>,
    <<"U", "N", "A", "V", "A", "I", "L", "A", "B", "L", "E">>,
    <<"R", "E", "S", "O", "U", "R", "C", "E", "_", "E", "X", "H", "A", "U", "S", "T", "E", "D">>,
    <<"O", "V", "E", "R", "L", "O", "A", "D", "E", "D">> }

isRetryable(msg) == \E mark \in RetryableMarks : includes(msg, mark)

\* A backoff that starts one step late
backoffLate(baseMs, factor, attempt) == baseMs * factor ^ (attempt + 1)

\* baseMs * (factor ** attempt)
backoffBase(baseMs, factor, attempt) == baseMs * factor ^ attempt

\* 0.7 + Math.random() * 0.6, in tenths
Jitters(jitter) == IF jitter THEN {7, 10, 12} ELSE {10}

InitRetry ==
  /\ ServiceInit /\ ReplayServerOff /\ CompressorOff /\ FacetServerOff
  /\ SnapshotterOff /\ BridgeOff
  /\ \E o \in Options :
       backoff = [pc |-> "loop", opts |-> o, attempt |-> 0, lastErr |-> Undefined,
                  value |-> Undefined, calls |-> <<>>, delays |-> <<>>]

\* `while (attempt < tries)` holds and fn() settles with o: the return, the
\* rethrow, or the start of the sleep
CallFn(o) ==
  /\ backoff.pc = "loop"
  /\ backoff.attempt < backoff.opts.tries
  /\ \E j \in Jitters(backoff.opts.jitter) :
       backoff' =
         IF o.ok
         THEN [backoff EXCEPT !.pc = "returned", !.value = o, !.calls = Append(@, o)]
         ELSE IF ~isRetryable(o.message)
         THEN [backoff EXCEPT !.pc = "thrown", !.lastErr = o, !.value = o,
                              !.calls = Append(@, o)]
         ELSE [backoff EXCEPT
                 !.pc = "sleep", !.lastErr = o, !.calls = Append(@, o),
                 !.delays = Append(@, (backoffBase(backoff.opts.baseMs, backoff.opts.factor,
                                                   backoff.attempt) * j) \div 10)]
  /\ UNCHANGED <<serviceVars, replayVars, compressorVars, facetVars, snapshotterVars,
                 bridge>>

\* The timer of the sleep fires: attempt++
EndSleep ==
  /\ backoff.pc = "sleep"
  /\ backoff' = [backoff EXCEPT !.pc = "loop", !.attempt = @ + 1]
  /\ UNCHANGED <<serviceVars, replayVars, compressorVars, facetVars, snapshotterVars,
                 bridge>>

\* `while (attempt < tries)` fails: throw lastErr
ThrowLast ==
  /\ backoff.pc = "loop"
  /\ backoff.attempt >= backoff.opts.tries
  /\ backoff' = [backoff EXCEPT !.pc = "thrown", !.value = backoff.lastErr]
  /\ UNCHANGED <<serviceVars, replayVars, compressorVars, facetVars, snapshotterVars,
                 bridge>>

NextRetry == (\E o \in Outcomes : CallFn(o)) \/ EndSleep \/ ThrowLast

\* fn settles and the timer fires
SpecRetry == InitRetry /\ [][NextRetry]_vars /\ WF_vars(NextRetry)

\* -------------------------------------------------------------------- bridge
\* bridge_sse_to_snapshot.js, fed the tick stream of one replay, and the
\* writer service behind it. The listeners are async functions the event
\* loop does not serialize: a handler runs from one await to the next, and
\* the next SSE message is dispatched while earlier handlers are suspended.
\* A request in flight is served by the service (/ingest pushes to the
\* bucket; /flush persists a non-empty bucket, or fails to and keeps it) and
\* answered in one step, which resumes the handler; or it is lost, which
\* makes postJSON throw. Requests in flight are served in any order. An
\* event is named by the position of its tick in the stream. As history,
\* sent holds the /flush requests of the tick path, served the windows whose
\* tick-path /flush was served, and late the events pushed to the bucket of
\* such a window afterwards.

MaxTicks == 3
MaxFaults == 1

\* process.env.WINDOW_SIZE_SEC of this run, read by the bridge (WINDOW) and by
\* the service (WINDOW_SIZE_SEC): half-hour windows
ENV_WINDOW_SIZE_SEC == 1800

TOTAL_GAME_SECONDS == 5400

ALL_WINDOWS ==
  [k \in 1..(TOTAL_GAME_SECONDS \div ENV_WINDOW_SIZE_SEC) |->
     [start |-> (k - 1) * ENV_WINDOW_SIZE_SEC, end |-> k * ENV_WINDOW_SIZE_SEC]]

\* The ts of the ticks of a replay, in the order sent: the replay server
\* sorts by ts, and several events can share a second. The last value is in
\* stoppage time, past TOTAL_GAME_SECONDS.
TickTimes == {10, 1810, 3650, 5410}

Sorted(ts) == \A i \in 1..(Len(ts) - 1) : ts[i] <= ts[i + 1]

TickStreams == {ts \in UNION {[1..n -> TickTimes] : n \in 0..MaxTicks} : Sorted(ts)}

Idle == [pc |-> "end", start |-> 0, end |-> 0]

InitBridge ==
  /\ ServiceInit /\ ReplayServerOff /\ CompressorOff /\ FacetServerOff
  /\ SnapshotterOff /\ RetryOff
  /\ \E ts \in TickStreams :
       bridge = [stream |-> ts, delivered |-> 0,
                 currentWindowStart |-> 0, currentWindowEnd |-> ENV_WINDOW_SIZE_SEC,
                 lastFlushedEnd |-> -1,
                 h |-> [i \in 1..Len(ts) |-> [pc |-> "new", start |-> 0, end |-> 0]],
                 done |-> [pc |-> "wait", k |-> 0],
                 buckets |-> <<>>, persisted |-> <<>>,
                 sent |-> <<>>, served |-> {}, late |-> {}, faults |-> 0]

\* handleTick from `while (ts >= currentWindowEnd)` to its next await or to
\* its end: the globals then, and whether a /flush of [start, end) was sent
RECURSIVE whileLoop(_, _, _, _)
whileLoop(ts, cws, cwe, lfe) ==
  IF ts < cwe THEN [await |-> FALSE, start |-> cws, end |-> cwe]
  ELSE IF cwe # lfe THEN [await |-> TRUE, start |-> cws, end |-> cwe]
  ELSE whileLoop(ts, cws + ENV_WINDOW_SIZE_SEC, cwe + ENV_WINDOW_SIZE_SEC, lfe)

\* Handler i runs on from the loop test with these globals
Resume(b, i, cws, cwe, lfe) ==
  LET r == whileLoop(b.stream[i], cws, cwe, lfe)
  IN  [b EXCEPT
         !.currentWindowStart = r.start,
         !.currentWindowEnd = r.end,
         !.lastFlushedEnd = lfe,
         !.h[i] = IF r.await THEN [pc |-> "flush", start |-> r.start, end |-> r.end]
                  ELSE Idle,
         !.sent = IF r.await
                  THEN Append(@, [path |-> "tick", start |-> r.start, end |-> r.end])
                  ELSE @]

\* The service's /ingest of event i at tSec
ingest(b, i, tSec) ==
  LET key == (tSec \div ENV_WINDOW_SIZE_SEC) * ENV_WINDOW_SIZE_SEC
      old == IF key \in DOMAIN b.buckets THEN b.buckets[key] ELSE <<>>
  IN  [b EXCEPT
         !.buckets = [s \in DOMAIN b.buckets \cup {key} |->
                        IF s = key THEN Append(old, i) ELSE b.buckets[s]],
         !.late = IF key \in b.served THEN @ \cup {i} ELSE @]

\* The service's /flush of (start, end): flushWindow returns at once for a
\* missing or empty bucket; else it persists and deletes the bucket, or, when
\* a query fails, logs and keeps it. The response is 200 either way.
flush(b, start, end, dbOk) ==
  LET held == start \in DOMAIN b.buckets /\ end = start + ENV_WINDOW_SIZE_SEC
  IN  [b EXCEPT
         !.buckets = IF held /\ dbOk
                     THEN [s \in DOMAIN b.buckets \ {start} |-> b.buckets[s]]
                     ELSE @,
         !.persisted = IF held /\ dbOk
                       THEN Append(@, [start |-> start, end |-> end,
                                       events |-> b.buckets[start]])
                       ELSE @,
         !.faults = IF held /\ ~dbOk THEN @ + 1 ELSE @]

\* The db answers, or fails once more
DbOutcomes(b) == {TRUE} \cup (IF b.faults < MaxFaults THEN {FALSE} ELSE {})

NotBridge == <<serviceVars, replayVars, compressorVars, facetVars, snapshotterVars,
               backoff>>

\* A tick arrives: handleTick starts and posts /ingest
OnTick ==
  /\ bridge # [pc |-> "off"]
  /\ bridge.delivered < Len(bridge.stream)
  /\ bridge' = [bridge EXCEPT !.delivered = @ + 1,
                              !.h[bridge.delivered + 1].pc = "ingest"]
  /\ UNCHANGED NotBridge

\* /ingest of tick i is served and its response resumes handler i
IngestDone(i) ==
  /\ bridge.h[i].pc = "ingest"
  /\ bridge' = Resume(ingest(bridge, i, bridge.stream[i]), i, bridge.currentWindowStart,
                      bridge.currentWindowEnd, bridge.lastFlushedEnd)
  /\ UNCHANGED NotBridge

\* postJSON throws in handler i: `ingest error`
IngestFails(i) ==
  /\ bridge.h[i].pc = "ingest"
  /\ bridge.faults < MaxFaults
  /\ bridge' = Resume([bridge EXCEPT !.faults = @ + 1], i, bridge.currentWindowStart,
                      bridge.currentWindowEnd, bridge.lastFlushedEnd)
  /\ UNCHANGED NotBridge

\* /flush of handler i is served and its response resumes the handler:
\* lastFlushedEnd = end, then the globals advance
FlushDone(i) ==
  /\ bridge.h[i].pc = "flush"
  /\ \E dbOk \in DbOutcomes(bridge) :
       bridge' = Resume([flush(bridge, bridge.h[i].start, bridge.h[i].end, dbOk)
                           EXCEPT !.served = @ \cup {bridge.h[i].start}], i,
                        bridge.currentWindowStart + ENV_WINDOW_SIZE_SEC,
                        bridge.currentWindowEnd + ENV_WINDOW_SIZE_SEC, bridge.h[i].end)
  /\ UNCHANGED NotBridge

\* postJSON throws in handler i: `flush error`, then the globals advance
FlushFails(i) ==
  /\ bridge.h[i].pc = "flush"
  /\ bridge.faults < MaxFaults
  /\ bridge' = Resume([bridge EXCEPT !.faults = @ + 1], i,
                      bridge.currentWindowStart + ENV_WINDOW_SIZE_SEC,
                      bridge.currentWindowEnd + ENV_WINDOW_SIZE_SEC, bridge.lastFlushedEnd)
  /\ UNCHANGED NotBridge

\* The done listener posts the /flush of ALL_WINDOWS[k], or closes
doneLoop(b, k) ==
  IF k > Len(ALL_WINDOWS) THEN [b EXCEPT !.done = [pc |-> "closed", k |-> 0]]
  ELSE [b EXCEPT !.done = [pc |-> "flush", k |-> k]]

\* done arrives, after the last tick
OnDone ==
  /\ bridge # [pc |-> "off"]
  /\ bridge.delivered = Len(bridge.stream)
  /\ bridge.done.pc = "wait"
  /\ bridge' = doneLoop(bridge, 1)
  /\ UNCHANGED NotBridge

\* The /flush of the done listener is served and its response resumes the loop
DoneFlush ==
  /\ bridge # [pc |-> "off"]
  /\ bridge.done.pc = "flush"
  /\ \E dbOk \in DbOutcomes(bridge) :
       bridge' = doneLoop(flush(bridge, ALL_WINDOWS[bridge.done.k].start,
                                ALL_WINDOWS[bridge.done.k].end, dbOk),
                          bridge.done.k + 1)
  /\ UNCHANGED NotBridge

\* postJSON throws in the done listener: `final flush error`, es.close()
DoneFlushFails ==
  /\ bridge # [pc |-> "off"]
  /\ bridge.done.pc = "flush"
  /\ bridge.faults < MaxFaults
  /\ bridge' = [bridge EXCEPT !.faults = @ + 1, !.done = [pc |-> "closed", k |-> 0]]
  /\ UNCHANGED NotBridge

Ticks == IF bridge = [pc |-> "off"] THEN {} ELSE 1..Len(bridge.stream)

NextBridge ==
  \/ OnTick
  \/ \E i \in Ticks : IngestDone(i)
  \/ \E i \in Ticks : IngestFails(i)
  \/ \E i \in Ticks : FlushDone(i)
  \/ \E i \in Ticks : FlushFails(i)
  \/ OnDone
  \/ DoneFlush
  \/ DoneFlushFails

SpecBridge == InitBridge /\ [][NextBridge]_vars

\* ------------------------------------------------------------ specification

Init == ServiceInit /\ ReplayServerOff /\ OfflineOff

Next ==
  \/ \E r \in IngestRequests : Ingest(r)
  \/ \E p \in Procs, r \in FlushRequests : FlushRequest(p, r)
  \/ \E p \in Procs, ok \in BOOLEAN : EnsureGameDone(p, ok)
  \/ \E p \in Procs, ok \in BOOLEAN : UpsertWindowDone(p, ok)
  \/ \E p \in Procs, ok \in BOOLEAN : InsertSnapshotDone(p, ok)

Spec == Init /\ [][Next]_vars

\* ------------------------------------------------------------------ steps
\* What the step just taken did, read from the lines it printed.

Awaiting(p) == pc[p] \in {"ensureGame", "upsertWindow", "insertSnapshot"}

\* The lines of handler p's request after the step: still with the handler,
\* or in the response when the step ended the request
LinesAfter(p) ==
  IF pc'[p] = "idle" /\ lastExchange'.op = "flush" /\ lastExchange'.status = 200
  THEN lastExchange'.lines
  ELSE console'[p]

\* Handler p's flushWindow of its current target ended in the catch block
FailedStep(p) ==
  /\ Awaiting(p)
  /\ pc'[p] \in {"idle", "ensureGame"}
  /\ LinesAfter(p) = Append(console[p], failedLine(gameId[p], Head(targets[p])))

\* Handler p's flushWindow of its current target wrote the snapshot and
\* cleared the bucket
SavedStep(p) ==
  /\ pc[p] = "insertSnapshot"
  /\ pc'[p] \in {"idle", "ensureGame"}
  /\ LinesAfter(p) = Append(console[p], savedLine(gameId[p], Head(targets[p]),
                                                  Len(heapArr[events[p]])))

\* The snapshot row stored for a window id
SnapshotOf(rows, wid) == CHOOSE s \in rows : s.window_id = wid

HasSnapshot(rows, wid) == \E s \in rows : s.window_id = wid

\* The events /ingest has acknowledged for game g with start <= ts < end
AcceptedFor(g, w) ==
  LET sel == SelectSeq(accepted, LAMBDA a : a.gameId = g /\ w.start <= a.event.ts
                                            /\ a.event.ts < w.end)
  IN  [i \in 1..Len(sel) |-> sel[i].event]

Elems(sq) == {sq[i] : i \in 1..Len(sq)}

\* ------------------------------------------------------------------ claims

\* C1: a successful flush of (game, start, end) persists a raw snapshot that
\* holds exactly the events acknowledged for that game with start <= ts < end
\* since the flushed bucket was created, in arrival order.
C1_RawSnapshotExact ==
  [][\A p \in Procs :
       SavedStep(p) =>
         LET w   == Head(targets[p])
             b   == heapArr[events[p]]
             raw == SnapshotOf(dbSnapshots', windowRow[p]).raw_json
         IN  raw = SelectSeq(AcceptedFor(gameId[p], w), LAMBDA e : e.id >= b[1].id)]_vars

\* C2: when a flush completes, every event of the bucket it clears is either
\* in the raw snapshot it persisted or still buffered in the window's bucket,
\* and not both.
C2_RacingEventKept ==
  [][\A p \in Procs :
       SavedStep(p) =>
         LET w    == Head(targets[p])
             raw  == SnapshotOf(dbSnapshots', windowRow[p]).raw_json
             left == liveBucket(eventsByWindow', heapMap', heapArr', gameId[p],
                                windowKey(w.start, w.end))
         IN  \A e \in Elems(heapArr[events[p]]) :
               (e \in Elems(raw)) # (e \in Elems(left))]_vars

\* C3: a flush whose ensureGame, upsertWindow or insertSnapshot fails leaves
\* every bucket of the accumulator registered with the same events in the
\* same order, and writes nothing, so the same flush retried reads the same
\* raw events.
C3_FailureKeepsBucket ==
  [][\A p \in Procs :
       FailedStep(p) =>
         /\ UNCHANGED <<eventsByWindow, heapMap, heapArr>>
         /\ UNCHANGED dbSnapshots
         /\ LET w == Head(targets[p])
                k == windowKey(w.start, w.end)
            IN  liveBucket(eventsByWindow', heapMap', heapArr', gameId[p], k)
                  = liveBucket(eventsByWindow, heapMap, heapArr, gameId[p], k)]_vars

\* A /flush has ended with a failed window whose bucket is still buffered
C3_Witness ==
  /\ lastExchange.op = "flush"
  /\ lastExchange.status = 200
  /\ \E i \in 1..Len(lastExchange.lines) :
       LET l == lastExchange.lines[i]
       IN  /\ l.level = "error"
           /\ liveBucket(eventsByWindow, heapMap, heapArr, l.gameId,
                         windowKey(l.start, l.end)) # <<>>

\* C4: the response of a /flush in which a window failed to persist is an
\* error outcome, not the 200 of a flush that persisted.
C4_FailureSurfaced ==
  (lastExchange.op = "flush" /\ lastExchange.status = 200)
    => \A i \in 1..Len(lastExchange.lines) : lastExchange.lines[i].level # "error"

\* A /flush request naming one window, or naming none
ExplicitRange(r) == r.start.t = "number" /\ r.end.t = "number"
NoRange(r) == r.start.t = "undefined" /\ r.end.t = "undefined"

\* C5: a /flush of a window with no buffered events (never ingested, or
\* already flushed), or of a game with nothing buffered, makes no persistence
\* call, raises no error, and leaves the store and the accumulator unchanged.
C5_EmptyFlushNoOp ==
  [][LET r == lastRequest'.body
     IN  ( /\ lastRequest'.op = "flush"
           /\ r.gameId # ""
           /\ \/ /\ ExplicitRange(r)
                 /\ liveBucket(eventsByWindow, heapMap, heapArr, r.gameId,
                               windowKey(r.start.v, r.end.v)) = <<>>
              \/ /\ NoRange(r)
                 /\ eventsByWindow[r.gameId] = 0 )
         => /\ UNCHANGED <<eventsByWindow, heapMap, heapArr>>
            /\ UNCHANGED <<dbGames, dbWindows, dbSnapshots>>
            /\ UNCHANGED pc
            /\ lastExchange'.op = "flush"
            /\ lastExchange'.status = 200
            /\ lastExchange'.lines = <<>>]_vars

\* A window that was flushed and persisted has been flushed again with
\* nothing buffered for it
C5_Witness ==
  /\ lastRequest.op = "flush"
  /\ lastRequest.body.gameId # ""
  /\ ExplicitRange(lastRequest.body)
  /\ LET r == lastRequest.body
         w == [start |-> r.start.v, end |-> r.end.v]
     IN  /\ liveBucket(eventsByWindow, heapMap, heapArr, r.gameId,
                       windowKey(w.start, w.end)) = <<>>
         /\ windowId(dbWindows, r.gameId, w) <= Len(dbWindows)
         /\ HasSnapshot(dbSnapshots, windowId(dbWindows, r.gameId, w))
  /\ lastExchange.op = "flush"
  /\ lastExchange.status = 200

\* C6: every buffered event sits in the bucket of the window
\* [start, start + 300) with start = floor(ts / 300) * 300, so
\* start <= ts < end; an event at ts = 300 sits in [300, 600).
C6_WindowAssignment ==
  \A g \in Games :
    eventsByWindow[g] # 0 =>
      \A i \in 1..Len(heapMap[eventsByWindow[g]]) :
        LET ent == heapMap[eventsByWindow[g]][i]
            w   == parseKey(ent.key)
        IN  \A e \in Elems(heapArr[ent.arr]) :
              /\ w.start <= e.ts /\ e.ts < w.end
              /\ w.end = w.start + 300
              /\ w.start % 300 = 0
              /\ e.ts = 300 => (w.start = 300 /\ w.end = 600)

\* An event at ts = 300 is buffered in [300, 600)
C6_Witness ==
  \E g \in Games :
    \E e \in Elems(liveBucket(eventsByWindow, heapMap, heapArr, g, windowKey(300, 600))) :
      e.ts = 300

\* C7: the windows a /flush writes are written in ascending start order.
C7_AscendingFlushOrder ==
  (lastExchange.op = "flush" /\ lastExchange.status = 200)
    => \A i, j \in 1..Len(lastExchange.lines) :
         i < j => lastExchange.lines[i].start < lastExchange.lines[j].start

\* A request with a required field missing or of the wrong type
MalformedIngest(r) == r.gameId = "" \/ r.tSec.t # "number" \/ ~r.hasEvent
MalformedFlush(r) == r.gameId = "" \/ (r.start.t = "number") # (r.end.t = "number")

\* C8: a malformed /ingest or /flush request is answered 400 in the step
\* that receives it, with the accumulator and the store unchanged.
C8_MalformedRejected ==
  [][( \/ lastRequest'.op = "ingest" /\ MalformedIngest(lastRequest'.body)
       \/ lastRequest'.op = "flush" /\ MalformedFlush(lastRequest'.body) )
     => /\ lastExchange'.op = lastRequest'.op
        /\ lastExchange'.status = 400
        /\ UNCHANGED <<eventsByWindow, heapMap, heapArr>>
        /\ UNCHANGED <<dbGames, dbWindows, dbSnapshots>>]_vars

\* Stored snapshots of game g
SnapshotsOfGame(g) == {s \in dbSnapshots : dbWindows[s.window_id].game_id = g}

RECURSIVE SumGoals(_)
SumGoals(rows) ==
  IF rows = {} THEN 0
  ELSE LET s == CHOOSE x \in rows : TRUE
       IN  CountIf(s.raw_json, LAMBDA e : e.type = GOAL) + SumGoals(rows \ {s})

\* C9: the score in the compressed snapshot of the game's latest window, when
\* it is the one flushed last, counts the GOAL events of all the game's raw
\* snapshots.
C9_RunningScore ==
  \A g \in Games :
    lastFlushed[g] # 0 =>
      LET s == SnapshotOf(dbSnapshots, lastFlushed[g])
          k == dbWindows[s.window_id].start_sec
      IN  (\A t \in SnapshotsOfGame(g) : dbWindows[t.window_id].start_sec <= k)
            => s.compressed_json.score.home + s.compressed_json.score.away
                 = SumGoals(SnapshotsOfGame(g))

\* counter - counter of the previous snapshot, per side
Delta(cur, prev) == [home |-> cur.home - prev.home, away |-> cur.away - prev.away]
ZeroDelta == [home |-> 0, away |-> 0]

\* C10: the snapshot a flush writes carries, per counter, this window's
\* value minus the value in the game's most recently flushed snapshot, and
\* zero when the game had none.
C10_TrendDeltas ==
  [][\A p \in Procs :
       SavedStep(p) =>
         LET g   == gameId[p]
             new == SnapshotOf(dbSnapshots', windowRow[p]).compressed_json
             tr  == new.trends_vs_prev
         IN  IF lastFlushed[g] = 0
             THEN tr.shot_delta = ZeroDelta /\ tr.card_delta = ZeroDelta
                  /\ tr.corner_delta = ZeroDelta
             ELSE LET prev == SnapshotOf(dbSnapshots, lastFlushed[g]).compressed_json
                  IN  /\ tr.shot_delta = Delta(new.state.shots, prev.state.shots)
                      /\ tr.card_delta = Delta(new.state.cards, prev.state.cards)
                      /\ tr.corner_delta = Delta(new.state.corners, prev.state.corners)]_vars

\* At most one window row per (game_id, start_sec, end_sec)
WindowsUnique(rows) ==
  \A i, j \in 1..Len(rows) : rows[i] = rows[j] => i = j

\* At most one snapshot row per window id
SnapshotsUnique(rows) ==
  \A s, t \in rows : s.window_id = t.window_id => s = t

\* C11: the store holds at most one window row per (game, start, end) and at
\* most one snapshot per window id, and when a flush succeeds the snapshot of
\* its window holds, as raw payload, the content of the bucket that flush
\* cleared (a re-flush replaces the row).
C11_StoreUniqueAndLatest ==
  [][\A p \in Procs :
       SavedStep(p) =>
         /\ WindowsUnique(dbWindows')
         /\ SnapshotsUnique(dbSnapshots')
         /\ SnapshotOf(dbSnapshots', windowRow[p]).raw_json = heapArr[events[p]]]_vars

\* The uniqueness half of C11 on its own: it holds in every state
StoreUnique == WindowsUnique(dbWindows) /\ SnapshotsUnique(dbSnapshots)

\* ------------------------------------------------------------ replay claims

IsTick(m) == m.event = "tick"
IsDone(m) == m.event = "done"
IsHello(m) == m.event = "hello"

\* The emitter has finished a replay: Done
EmitterDone == runs >= 1 /\ ~replaying

\* C12: once a replay has ended (done broadcast) the emitter is inert: no
\* further replay starts and no further tick is emitted, so a subscriber
\* attaching after Done gets no tick.
C12_OneReplayPerLifetime ==
  [][EmitterDone => (runs' = runs /\ emitted' = emitted /\ ~replaying')]_vars

\* C13: at most one activation of the replay loop exists at any time.
C13_OneLoopActive == Len(loops) <= 1

\* A client is alone in the Set, having connected while the loop of an
\* earlier client was running: the first-client test passed, the flag held
C13_Witness ==
  /\ replaying
  /\ Len(loops) = 1
  /\ runs = 1
  /\ \E c, d \in Conns : conn[c] = "closed" /\ conn[d] = "open" /\ clients = {d}

\* C14: on every connection the first message is the hello and no other is;
\* the ticks it gets have strictly increasing indexes and non-decreasing
\* timestamps; no tick follows a done.
C14_StreamOrdered ==
  \A c \in Conns :
    LET box == inbox[c] IN
    /\ box # <<>> => IsHello(box[1])
    /\ \A j \in 2..Len(box) : ~IsHello(box[j])
    /\ \A j, k \in 1..Len(box) :
         (j < k /\ IsTick(box[j]) /\ IsTick(box[k]))
           => (box[j].i < box[k].i /\ box[j].ts <= box[k].ts)
    /\ \A j, k \in 1..Len(box) : (j < k /\ IsDone(box[j])) => ~IsTick(box[k])

\* A connection got hello, the ticks of a file given out of order, and done
C14_Witness ==
  \E c \in Conns :
    /\ Len(all) = 4
    /\ Len(inbox[c]) = Len(normalized) + 2
    /\ IsHello(inbox[c][1])
    /\ IsTick(inbox[c][2])
    /\ IsDone(inbox[c][Len(inbox[c])])

\* C15 (its safety half): a connection that has been sent done is no longer
\* in the broadcast set, and it has been sent done once.
C15_DoneThenClosed ==
  \A c \in Conns :
    /\ (\E j \in 1..Len(inbox[c]) : IsDone(inbox[c][j])) => c \notin clients
    /\ Len(SelectSeq(inbox[c], IsDone)) <= 1

\* The part of box2 written after box1
Written(box1, box2) == SubSeq(box2, Len(box1) + 1, Len(box2))

\* Every run emits the indexes 0..n-1 in order, each once
EmissionInOrder ==
  /\ \A j \in 1..Len(emitted) :
       /\ emitted[j].i = (j - 1) % Len(normalized)
       /\ emitted[j].ev = normalized[emitted[j].i + 1]
  /\ ~replaying => Len(emitted) = runs * Len(normalized)
  /\ replaying => /\ Len(loops) = 1
                  /\ Len(emitted) = (runs - 1) * Len(normalized) + loops[1].i

\* C16: whatever connects or closes, every run emits each index once in
\* increasing order, and the ticks written to a connection in a step are
\* the tick emitted in that step if the connection is in the set, else none.
C16_ChurnDoesNotAffectEmission ==
  [][/\ EmissionInOrder'
     /\ \A c \in Conns :
          SelectSeq(Written(inbox[c], inbox'[c]), IsTick)
            = IF c \in clients /\ emitted' # emitted
              THEN << [event |-> "tick", i |-> emitted'[Len(emitted')].i,
                       ts |-> emitted'[Len(emitted')].ts,
                       ev |-> emitted'[Len(emitted')].ev] >>
              ELSE <<>>]_vars

\* A run went through with nobody attached at its last tick, and a
\* connection that joined late got tick 1 without tick 0
C16_Witness ==
  /\ Len(normalized) = 2
  /\ Len(emitted) = 2
  /\ clients = {}
  /\ \E c \in Conns :
       SelectSeq(inbox[c], IsTick) = << [event |-> "tick", i |-> 1,
                                         ts |-> emitted[2].ts, ev |-> emitted[2].ev] >>
  /\ \E c \in Conns : conn[c] = "closed" /\ inbox[c] = <<helloMsg(SPEED, 2)>>

\* C17: the j-th sleep of a run lasts clamp((ts - prev) / SPEED * 1000, 30,
\* 5000) ms, prev being 0 before the first event and then the ts of the
\* event emitted before; events at ts 0 and 50 at speed 5 wait 30 ms and
\* 5000 ms. (gap is in units of 1/SPEED ms.)
C17_ClampedWaits ==
  /\ \A j \in 1..Len(waits) :
       LET w  == waits[j]
           k  == (j - 1) % Len(normalized)
           ms == (w.ts - w.prev) * 1000
       IN  /\ w.ts = normalized[k + 1].ts
           /\ w.prev = IF k = 0 THEN 0 ELSE normalized[k].ts
           /\ w.gap >= 30 * SPEED /\ w.gap <= 5000 * SPEED
           /\ w.gap = IF ms < 30 * SPEED THEN 30 * SPEED
                      ELSE IF ms > 5000 * SPEED THEN 5000 * SPEED ELSE ms
  /\ (SPEED = 5 /\ Len(normalized) = 2 /\ normalized[1].ts = 0 /\ normalized[2].ts = 50)
       => \A j \in 1..Len(waits) :
            waits[j].gap = (IF j % 2 = 1 THEN 30 ELSE 5000) * SPEED

\* Events at ts 0 and 50 replayed at speed 5, both sleeps entered; and a
\* run with a sleep strictly between the bounds
C17_Witness ==
  /\ SPEED = 5
  /\ Len(normalized) = 2 /\ normalized[1].ts = 0 /\ normalized[2].ts = 50
  /\ Len(waits) = 2
  /\ waits[2].gap = 5000 * 5

\* --------------------------------------------------------- normalizer claims

\* normalizeEvent has been applied to a record and kept it
Kept == record # NoRecord /\ canonical # Null

\* C18: the timestamp of a record of period 1..4 is minute * 60 + second
\* plus 0, 2700, 5400 or 6300 for period 1, 2, 3, 4, the offset left out
\* when period > 1 and minute >= 45.
C18_AbsoluteTimestamp ==
  (Kept /\ record.period \in 1..4) =>
    LET base == record.minute * 60 + record.second
        off  == IF record.period = 1 THEN 0
                ELSE IF record.period = 2 THEN 2700
                ELSE IF record.period = 3 THEN 5400 ELSE 6300
    IN  canonical.ts = IF record.period > 1 /\ record.minute >= 45
                       THEN base ELSE base + off

\* A second-half record stamped minute 50 keeps 3000 s; one stamped minute 10
\* would get the offset
C18_Witness ==
  /\ Kept
  /\ record.period = 2 /\ record.minute = 50 /\ record.second = 0
  /\ canonical.ts = 3000

\* C19: a shot becomes GOAL iff its outcome is Goal, else SHOT; a pass
\* becomes ASSIST if goal_assist, else KEY_PASS if shot_assist, else
\* PASS_INTO_BOX if its end location has x >= 102 and 18 <= y <= 62, else it
\* gives no canonical event.
C19_TypeResolution ==
  /\ record.type = "Shot" =>
       /\ canonical # Null
       /\ canonical.type = (IF record.outcome = "Goal" THEN GOAL ELSE SHOT)
  /\ record.type = "Pass" =>
       LET loc   == record.end_location
           inBox == Len(loc) >= 2 /\ loc[1] >= 102 /\ 18 <= loc[2] /\ loc[2] <= 62
       IN  IF record.goal_assist THEN canonical # Null /\ canonical.type = ASSIST
           ELSE IF record.shot_assist THEN canonical # Null /\ canonical.type = KEY_PASS
           ELSE IF inBox THEN canonical # Null /\ canonical.type = PASS_INTO_BOX
           ELSE canonical = Null

\* A plain pass ending on the corner (102, 62) of the zone is PASS_INTO_BOX
C19_Witness ==
  /\ record.type = "Pass"
  /\ ~record.goal_assist /\ ~record.shot_assist
  /\ record.end_location = <<102, 62>>
  /\ canonical # Null
  /\ canonical.type = PASS_INTO_BOX

\* The canonical types
RecognizedTypes ==
  { GOAL, SHOT, FOUL, CARD, CORNER, FREE_KICK_WON, THROW_IN, GOAL_KICK, OFFSIDE,
    SUB, ASSIST, KEY_PASS, PASS_INTO_BOX, VAR, SHOT_SAVED, PUNCHED }

\* C20: every canonical event has a non-empty type of the recognized set.
C20_TypeRecognized ==
  canonical # Null => (canonical.type # <<>> /\ canonical.type \in RecognizedTypes)

\* The window keys of the requests
WindowKeys == {windowKey(w, w + WINDOW_SIZE_SEC) : w \in {0, WINDOW_SIZE_SEC}}

\* C28: a step of a flush that no /ingest shares changes the bucket of
\* (game, window) only when it ends the flushWindow of that game and window:
\* every bucket of another game and every other window's bucket of the same
\* game holds the same events after the step, on success and on failure.
C28_FlushFrame ==
  [][accepted' = accepted =>
       \A g \in Games, k \in WindowKeys :
         liveBucket(eventsByWindow', heapMap', heapArr', g, k)
             # liveBucket(eventsByWindow, heapMap, heapArr, g, k)
           => \E p \in Procs :
                /\ Awaiting(p)
                /\ targets'[p] # targets[p]
                /\ gameId[p] = g
                /\ k = windowKey(Head(targets[p]).start, Head(targets[p]).end)]_vars

\* The windows a /flush response reports as saved
SavedLines(lines) == {i \in 1..Len(lines) : lines[i].level = "log"}

\* C29: the count a /flush returns is the number of windows whose snapshot
\* that call persisted; 0 with no bucket, an empty bucket or a failure.
C29_FlushedIsPersisted ==
  (lastExchange.op = "flush" /\ lastExchange.status = 200)
    => lastExchange.flushed = Cardinality(SavedLines(lastExchange.lines))

\* ------------------------------------------------- claims on the compressor

\* The distinct team names of a stream in order of first appearance
RECURSIVE TeamNames(_, _)
TeamNames(evs, seen) ==
  IF evs = <<>> THEN seen
  ELSE LET t == Head(evs).team
       IN  TeamNames(Tail(evs), IF t = "" \/ t \in Elems(seen) THEN seen
                                ELSE Append(seen, t))

TwoSides(evs) == slice0(TeamNames(evs, <<>>), 2)

OfTeam(evs, t) == SelectSeq(evs, LAMBDA e : e.team = t)

Counters == {"shots", "shots_on_target", "box_entries", "corners", "fouls", "cards"}

\* What stkmCompress counts for a list, the two sides added up
Counted(evs, c) ==
  LET st == stkmCompress(evs, WindowMeta).state IN st[c].home + st[c].away

\* C25: the home side of the compressor is the first team name of the
\* stream and the away side the second: each home counter is what the events
\* of the first team count for, each away counter what the events of the
\* second team count for, and an event of any other team or of no team adds
\* to neither.
C25_SidesAreFirstTwoTeams ==
  compressed # Null =>
    LET sides == TwoSides(rawList)
        of(k) == IF k <= Len(sides) THEN OfTeam(rawList, sides[k]) ELSE <<>>
    IN  \A c \in Counters :
          /\ compressed.state[c].home = Counted(of(1), c)
          /\ compressed.state[c].away = Counted(of(2), c)

\* The reference counts of a raw list, per side as the compressor assigns it
refShots(evs, sd) ==
  CountIf(evs, LAMBDA e : sideOf(e) = sd /\ e.type \in {SHOT, GOAL})

refShotsOnTarget(evs, sd) ==
  CountIf(evs, LAMBDA e : sideOf(e) = sd
                          /\ (e.type = GOAL \/ (e.type = SHOT /\ e.on_target)))

refCorners(evs, sd) == CountIf(evs, LAMBDA e : sideOf(e) = sd /\ e.type = CORNER)

refFouls(evs, sd) == CountIf(evs, LAMBDA e : sideOf(e) = sd /\ e.type = FOUL)

refCards(evs, sd) == CountIf(evs, LAMBDA e : sideOf(e) = sd /\ e.type = CARD)

refBoxEntries(evs, sd) ==
  CountIf(evs, LAMBDA e : sideOf(e) = sd /\ e.type = PASS_INTO_BOX)

RefState(evs) ==
  [shots           |-> BySide(refShots, evs),
   shots_on_target |-> BySide(refShotsOnTarget, evs),
   box_entries     |-> BySide(refBoxEntries, evs),
   corners         |-> BySide(refCorners, evs),
   fouls           |-> BySide(refFouls, evs),
   cards           |-> BySide(refCards, evs)]

\* C26: for every raw list of canonical events the per-side counters of the
\* compressor are the reference counts: shots = SHOT + GOAL, shots on target
\* = GOAL + SHOT flagged on target, corners = CORNER, fouls = FOUL, cards =
\* CARD, box entries = PASS_INTO_BOX.
C26_CountersMatchReference ==
  compressed # Null => compressed.state = RefState(rawList)

ImpactfulTypes == {GOAL, SHOT, CORNER, CARD, FOUL, PASS_INTO_BOX, KEY_PASS, ASSIST}

\* C27: key_moments holds at most KEY_MOMENTS_CAP entries, the most recent
\* first, each of an impactful type and with a known player.
C27_KeyMomentsRecentFirst ==
  compressed # Null =>
    LET km == compressed.key_moments
    IN  /\ Len(km) <= KEY_MOMENTS_CAP
        /\ \A i \in 1..(Len(km) - 1) : km[i].ts >= km[i + 1].ts
        /\ \A i \in 1..Len(km) : km[i].type \in ImpactfulTypes /\ km[i].player # ""

\* ---------------------------------------------- claims on the facet server

\* POST /get_facet has answered 200 for facet f
Answered(f) ==
  facetRequest # NoRequest /\ facetResponse.status = 200 /\ facetResponse.facet = f

\* The raw events of the windows the last request asked for
RawServed ==
  readRawWindow(dbWindows, dbSnapshots, facetRequest.gameId,
                facetRequest.start.v, facetRequest.end.v).events

\* A snapshot row, of any kind, is stored for window (g, start, end)
SnapshotStored(g, start, end) ==
  \E i \in 1..Len(dbWindows) :
    /\ dbWindows[i] = [game_id |-> g, start_sec |-> start, end_sec |-> end]
    /\ \E sn \in dbSnapshots : sn.window_id = i

WellFormed(r) ==
  r.gameId # "" /\ r.start.t = "number" /\ r.end.t = "number" /\ r.facet \in FacetKinds

\* C21: a request with a missing or ill-typed parameter or an unknown facet
\* kind is answered 400, and a well-formed request for a (game, start, end)
\* with no snapshot stored is answered 404, never with a facet payload.
C21_NoRawIsNotFound ==
  facetRequest # NoRequest =>
    /\ ~WellFormed(facetRequest) => facetResponse.status = 400
    /\ (WellFormed(facetRequest)
        /\ ~SnapshotStored(facetRequest.gameId, facetRequest.start.v, facetRequest.end.v))
         => facetResponse.status = 404

\* The (team, player) of an event or of a facet entry
Who(x) == <<x.team, x.player>>

\* The position in the raw list at which a (team, player) first appears
FirstSeen(evs, tp) ==
  CHOOSE i \in 1..Len(evs) : Who(evs[i]) = tp /\ \A j \in 1..(i - 1) : Who(evs[j]) # tp

\* The per-player counts of the raw list
PlayerCounts(evs, tp) ==
  LET n(T) == Cardinality({i \in 1..Len(evs) : Who(evs[i]) = tp /\ evs[i].type \in T})
  IN  [player |-> tp[2], team |-> tp[1],
       shots |-> n({SHOT, GOAL}),
       sot |-> Cardinality({i \in 1..Len(evs) :
                              /\ Who(evs[i]) = tp
                              /\ (evs[i].type = GOAL
                                  \/ (evs[i].type = SHOT /\ evs[i].on_target))}),
       box_touches |-> n({PASS_INTO_BOX}),
       key_passes |-> n({KEY_PASS, ASSIST})]

Score(p) == 3 * p.sot + 2 * p.shots + p.box_touches + p.key_passes

\* p ranks before q: a higher score, or the same score and seen first
Before(evs, p, q) ==
  \/ Score(p) > Score(q)
  \/ Score(p) = Score(q) /\ FirstSeen(evs, Who(p)) < FirstSeen(evs, Who(q))

\* C22: the player-threat facet returns at most 3 entries, one per (team,
\* player), each with the shots, sot, box_touches and key_passes counted from
\* the raw list, ordered by 3*sot + 2*shots + box_touches + key_passes
\* descending with ties in first-appearance order; a player with a shot, box
\* touch or key pass is left out only behind three entries that rank before.
C22_TopAttackers ==
  Answered("PTF") =>
    LET evs == RawServed
        top == facetResponse.data.top_attackers
        ids == 1..Len(top)
    IN  /\ Len(top) <= 3
        /\ \A i, j \in ids : i # j => Who(top[i]) # Who(top[j])
        /\ \A i \in ids : top[i] = PlayerCounts(evs, Who(top[i]))
        /\ \A i, j \in ids : i < j => Before(evs, top[i], top[j])
        /\ \A k \in 1..Len(evs) :
             LET p == PlayerCounts(evs, Who(evs[k]))
             IN  (evs[k].player # "" /\ (p.shots + p.box_touches + p.key_passes > 0))
                   => \/ \E i \in ids : top[i] = p
                      \/ Len(top) = 3 /\ \A i \in ids : Before(evs, top[i], p)

\* The facet has answered for [{SHOT, A, X, on target}, {PASS_INTO_BOX, A, X}]
C22_Witness ==
  /\ Answered("PTF")
  /\ RawServed = Stamped(<< Canon(SHOT, "A", "X", TRUE),
                           Canon(PASS_INTO_BOX, "A", "X", FALSE) >>)
  /\ facetResponse.data.top_attackers[1]
       = [player |-> "X", team |-> "A", shots |-> 1, sot |-> 1,
          box_touches |-> 1, key_passes |-> 0]

\* The team-bearing events of a raw list
TeamBearing(evs) == SelectSeq(evs, LAMBDA e : e.team # "")

\* The number of events in a chain, and the position of its first event
\* among the team-bearing events
ChainLen(ch) == ch.dur \div 3

RECURSIVE ChainStart(_, _)
ChainStart(chains, i) ==
  IF i = 1 THEN 1 ELSE ChainStart(chains, i - 1) + ChainLen(chains[i - 1])

Notable(e) ==
  IF e.type = SHOT THEN (IF e.on_target THEN "shot_on_target" ELSE "shot")
  ELSE IF e.type = GOAL THEN "goal"
  ELSE IF e.type = CORNER THEN "corner_won"
  ELSE "none"

\* The tag of the last notable event of a run of events, "lost" with none
LastNotable(run) ==
  LET at == {i \in 1..Len(run) : Notable(run[i]) # "none"}
  IN  IF at = {} THEN "lost"
      ELSE Notable(run[CHOOSE i \in at : \A j \in at : j <= i])

\* C23: the chains of toChains are the maximal runs of consecutive same-team
\* events among the team-bearing events: adjacent chains have different
\* teams, the chains cover the team-bearing events in order, each event in
\* exactly one chain of its team, and each chain ends with the tag of its
\* last notable event or with "lost"; the facet counts one chain per run.
C23_PossessionChains ==
  Answered("PCS") =>
    LET evs    == TeamBearing(RawServed)
        chains == toChains(RawServed)
        ids    == 1..Len(chains)
        run(i) == SubSeq(evs, ChainStart(chains, i),
                         ChainStart(chains, i) + ChainLen(chains[i]) - 1)
    IN  /\ \A i \in ids : i < Len(chains) => chains[i].team # chains[i + 1].team
        /\ \A i \in ids : ChainLen(chains[i]) >= 1
        /\ ChainStart(chains, Len(chains) + 1) = Len(evs) + 1
        /\ \A i \in ids : \A k \in 1..Len(run(i)) : run(i)[k].team = chains[i].team
        /\ \A i \in ids : chains[i].end = LastNotable(run(i))
        /\ \A T \in DOMAIN facetResponse.data.counts :
             facetResponse.data.counts[T].chains_total
               = Cardinality({i \in ids : chains[i].team = T})

\* The facet has answered for [A PASS, A SHOT on target, B FOUL], whose
\* chains are {A, shot_on_target}, {B, lost}
C23_Witness ==
  /\ Answered("PCS")
  /\ RawServed = Stamped(<< Canon(PASS, "A", "X", FALSE), Canon(SHOT, "A", "X", TRUE),
                           Canon(FOUL, "B", "Y", FALSE) >>)
  /\ [i \in 1..Len(toChains(RawServed)) |->
        <<toChains(RawServed)[i].team, toChains(RawServed)[i].end>>]
       = << <<"A", "shot_on_target">>, <<"B", "lost">> >>
  /\ facetResponse.data.counts["A"].shots = 1

InUnit(sc) == 0 <= sc.num /\ sc.num <= sc.den

\* C24: every score of the market-hook facet lies in [0, 1]: the goal score
\* of each side is its weighted shot count capped against 4, the cards score
\* the foul count capped against 6, the corners score the corner count
\* capped against 4.
C24_ScoresInUnitInterval ==
  Answered("MMH") =>
    LET h == facetResponse.data.hooks
        n(T) == Cardinality({i \in 1..Len(RawServed) : RawServed[i].type = T})
    IN  /\ \A T \in DOMAIN h.goal_in_next_interval_score :
             InUnit(h.goal_in_next_interval_score[T])
             /\ h.goal_in_next_interval_score[T].den = 2 * 4
        /\ InUnit(h.cards_in_next_interval_score)
        /\ h.cards_in_next_interval_score = [num |-> min(2 * 6, 2 * n(FOUL)), den |-> 2 * 6]
        /\ InUnit(h.corners_in_next_interval_score)
        /\ h.corners_in_next_interval_score
             = [num |-> min(2 * 4, 2 * n(CORNER)), den |-> 2 * 4]

\* The facet has answered for three goals of one side, a weighted count of
\* 4.5 against the scale 4: the score is 1
C24_Witness ==
  /\ Answered("MMH")
  /\ RawServed = Stamped(<< Canon(GOAL, "B", "W", TRUE), Canon(GOAL, "B", "W", TRUE),
                           Canon(GOAL, "B", "W", TRUE) >>)
  /\ facetResponse.data.hooks.goal_in_next_interval_score["B"] = [num |-> 8, den |-> 8]

\* ------------------------------------------- claims on the offline snapshotter

\* The number of GOAL events in the raw snapshots of the first k files
RECURSIVE GoalsUpTo(_, _)
GoalsUpTo(written, k) ==
  IF k = 0 THEN 0
  ELSE GoalsUpTo(written, k - 1)
       + Cardinality({i \in 1..Len(written[k].raw) : written[k].raw[i].type = GOAL})

\* C30: the running score in the STKM of every window written is the number
\* of GOAL events in the raw snapshots written up to that window, whatever
\* team the goals are recorded for.
C30_RunningScoreCountsGoals ==
  \A k \in 1..Len(snapshots) :
    snapshots[k].stkm.score.home + snapshots[k].stkm.score.away
      = GoalsUpTo(snapshots, k)

\* The counters of the window that starts at `start`: those of its STKM when
\* the window was written, zero when it holds no events
ZeroSides == [home |-> 0, away |-> 0]

CountersAt(written, start) ==
  IF \E j \in 1..Len(written) : written[j].start = start
  THEN LET j == CHOOSE j \in 1..Len(written) : written[j].start = start
       IN  [shots |-> written[j].stkm.state.shots,
            cards |-> written[j].stkm.state.cards,
            corners |-> written[j].stkm.state.corners]
  ELSE [shots |-> ZeroSides, cards |-> ZeroSides, corners |-> ZeroSides]

PerSide(cur, prev) == [home |-> cur.home - prev.home, away |-> cur.away - prev.away]

\* C31: the first STKM written carries no deltas; in every later one each
\* delta is the counter of its window minus the counter of the window just
\* before it, a window with no events counting zero.
C31_SnapshotterDeltas ==
  \A k \in 1..Len(snapshots) :
    LET st   == snapshots[k].stkm
        prev == CountersAt(snapshots, snapshots[k].start - WINDOW)
    IN  IF k = 1 THEN st.trends_vs_prev = Null
        ELSE /\ st.trends_vs_prev.shot_delta = PerSide(st.state.shots, prev.shots)
             /\ st.trends_vs_prev.card_delta = PerSide(st.state.cards, prev.cards)
             /\ st.trends_vs_prev.corner_delta = PerSide(st.state.corners, prev.corners)

\* C38: a provider record that both normalizers keep gets the same absolute
\* timestamp, and so the same window, from the replay server's normalizer
\* and from the offline snapshotter's.
C38_NormalizersAgree ==
  (Kept /\ normalize(record) # Null) =>
    /\ canonical.ts = normalize(record).ts
    /\ canonical.ts \div WINDOW = normalize(record).ts \div WINDOW

\* The snapshot rows stored for window (g, start, end)
SnapshotsFor(g, start, end) ==
  {sn \in dbSnapshots :
     /\ sn.window_id \in 1..Len(dbWindows)
     /\ dbWindows[sn.window_id] = [game_id |-> g, start_sec |-> start, end_sec |-> end]}

\* C37: a facet query for exactly the (game, start, end) of a window the
\* writer persisted (a row of kind STKM holding the raw events) computes the
\* facet over exactly the raw events stored for that window.
C37_ReaderServesWhatWriterStored ==
  (facetRequest # NoRequest /\ WellFormed(facetRequest)) =>
    \A sn \in SnapshotsFor(facetRequest.gameId, facetRequest.start.v, facetRequest.end.v) :
      sn.compressed_kind = "STKM" =>
        /\ facetResponse.status = 200
        /\ facetResponse.data = facetMap(facetRequest.facet, sn.raw_json)

\* The raw list the tables hold for window 0-300 of g1
RawStored == UNION {{sn.raw_json} : sn \in {s \in dbSnapshots : s.compressed_kind = "raw"}}

\* C39: every facet extractor is total: a well-formed request for one of the
\* eight facets over a stored raw list, whatever teams its events carry, is
\* answered with the facet's payload and never with an error.
C39_ExtractorsAreTotal ==
  (facetRequest # NoRequest /\ WellFormed(facetRequest) /\ RawStored # {}) =>
    /\ facetResponse.status = 200
    /\ \A raw \in RawStored : facetMap(facetRequest.facet, raw) # Raised

\* ------------------------------------------------------ claims on withBackoff

Settled == backoff.pc \in {"returned", "thrown"}

RetryableFailure(o) == ~o.ok /\ isRetryable(o.message)

\* The calls of fn so far, but the last, failed with a retryable error
OnlyLastMayEnd ==
  \A i \in 1..(Len(backoff.calls) - 1) : RetryableFailure(backoff.calls[i])

LastCall == backoff.calls[Len(backoff.calls)]

\* The delay after the failure of attempt k (from 0) is
\* baseMs * factor^k, times a jitter in [0.7, 1.3) when jitter is on
DelaysBackOff ==
  \A i \in 1..Len(backoff.delays) :
    LET base == backoff.opts.baseMs * backoff.opts.factor ^ (i - 1)
        d    == backoff.delays[i]
    IN  IF backoff.opts.jitter
        THEN 10 * d >= 7 * base /\ 10 * d < 13 * base
        ELSE d = base

C40_Safety ==
  backoff.pc # "off" =>
    /\ Len(backoff.calls) <= backoff.opts.tries
    /\ OnlyLastMayEnd
    /\ DelaysBackOff
    /\ backoff.pc = "returned" => LastCall.ok /\ backoff.value = LastCall
    /\ backoff.pc = "thrown" =>
         \/ /\ backoff.calls # <<>>
            /\ ~LastCall.ok /\ ~isRetryable(LastCall.message)
            /\ backoff.value = LastCall
         \/ /\ Len(backoff.calls) = backoff.opts.tries
            /\ \A i \in 1..Len(backoff.calls) : RetryableFailure(backoff.calls[i])
            /\ Len(backoff.delays) = backoff.opts.tries
            /\ backoff.calls # <<>> => backoff.value = LastCall

\* C40: withBackoff calls fn at most `tries` times and terminates: it returns
\* the result of the first successful call, rethrows a non-retryable error at
\* once with no further call, throws the last error after `tries` retryable
\* failures, and the delay after failure k (from 0) is based on
\* baseMs * factor^k.
C40_BackoffTerminates == []C40_Safety /\ <>Settled

\* The call gave up after failing `tries` times, having slept with growing delays
C40_Witness ==
  /\ backoff.pc = "thrown"
  /\ backoff.opts.tries = MaxTries
  /\ Len(backoff.calls) = MaxTries
  /\ RetryableFailure(LastCall)
  /\ backoff.delays[Len(backoff.delays)] > backoff.delays[1]

\* ------------------------------------------------------- claims on the bridge

BridgeOn == bridge # [pc |-> "off"]

\* No tick handler is suspended at an await
Quiescent == \A i \in Ticks : bridge.h[i].pc \in {"new", "end"}

\* C32: the tick path sends at most one /flush per window end boundary, also
\* when tick handlers overlap.
C32_TickFlushOnce ==
  BridgeOn =>
    \A a, b \in 1..Len(bridge.sent) : a # b => bridge.sent[a].end # bridge.sent[b].end

\* C33: while a tick-path /flush of [start, end) is in flight, no /ingest of
\* a tick with start <= ts < end is still in flight, and no event reaches
\* the bucket of a window after the tick-path /flush of that window.
C33_IngestBeforeFlush ==
  BridgeOn =>
    /\ \A i, j \in Ticks :
         (bridge.h[i].pc = "flush" /\ bridge.h[j].pc = "ingest") =>
           ~(bridge.h[i].start <= bridge.stream[j] /\ bridge.stream[j] < bridge.h[i].end)
    /\ bridge.late = {}

\* C34: the windows persisted, by the tick path and the done path together,
\* are persisted in non-decreasing order of start_sec.
C34_PersistedInOrder ==
  BridgeOn =>
    \A a, b \in 1..Len(bridge.persisted) :
      a < b => bridge.persisted[a].start <= bridge.persisted[b].start

\* C35: once the done listener has finished and no tick handler is in
\* flight, no bucket remains: every event ingested has been persisted.
C35_DoneLeavesNoBucket ==
  (BridgeOn /\ bridge.done.pc = "closed" /\ Quiescent) => DOMAIN bridge.buckets = {}

\* C36: whenever no tick handler is in flight, currentWindowStart is a
\* multiple of the window size, currentWindowEnd is one window later, and
\* the largest ts handled so far lies in [currentWindowStart, currentWindowEnd).
C36_TrackerFollowsTicks ==
  (BridgeOn /\ Quiescent) =>
    /\ bridge.currentWindowStart % ENV_WINDOW_SIZE_SEC = 0
    /\ bridge.currentWindowEnd = bridge.currentWindowStart + ENV_WINDOW_SIZE_SEC
    /\ bridge.delivered >= 1 =>
         /\ bridge.currentWindowStart <= bridge.stream[bridge.delivered]
         /\ bridge.stream[bridge.delivered] < bridge.currentWindowEnd

====
